---- MODULE Spec2Model ----
(***************************************************************************)
(* Gerald gateway: the BNPL credit-decision engine (service/scoring) and   *)
(* the DecisionService use case that orchestrates it (bank fetch, scoring, *)
(* persistence, repayment plan, ledger webhook).                           *)
(*                                                                         *)
(* Number representation.  The code computes with Python floats; the model *)
(* keeps every quantity as an exact integer or a pair of integers:         *)
(*   - money is in cents, as in the code;                                  *)
(*   - the average daily balance is carried as total_cents, the sum of the *)
(*     90 daily balances; the code returns total_cents / (90 * 100);       *)
(*   - the income/spend ratio is [inf, num, den]: float('inf') or num/den; *)
(*   - weights and ratio thresholds are in hundredths (0.35 is 35);        *)
(*   - round(x, 2) yields hundredths (999.99 is 99999);                    *)
(*   - int(x) truncates toward zero (TruncDiv).                            *)
(***************************************************************************)
EXTENDS Integers, Sequences, FiniteSets, TLC

VARIABLES
    settings,       \* scoring_settings, the process-wide ScoringSettings
    pc,             \* per caller: position in its call
    request,        \* per caller: DecisionRequest (user_id, amount_cents_requested)
    transactions,   \* per caller: the transaction list being evaluated
    decision,       \* per caller: the Decision entity held by DecisionService.make_decision
    plan,           \* per caller: the Plan built by _create_plan
    response,       \* per caller: the DecisionResponse returned to the caller
    error,          \* per caller: the exception that left make_decision
    bank_attempt,   \* per caller: loop index of HttpBankAPIClient.get_transactions
    hook_attempt,   \* per caller: loop index of HttpLedgerWebhookClient._send_webhook
    hook_result,    \* per caller: value returned by send_plan_created
    hook_sleeps,    \* per caller: backoff sleeps awaited inside _send_webhook
    hook_delays,    \* per caller: the delays of those sleeps, in tenths of a second
    bank_reply,     \* per caller: outcome of the latest bank request
    engine_args,    \* per caller: arguments of a direct scoring.make_decision call
    engine_out,     \* per caller: Decision returned by scoring.make_decision
    db_decisions,   \* rows of bnpl_decisions
    db_plans,       \* rows of bnpl_plans (with their installments)
    ledger,         \* plan_created webhooks the ledger has accepted
    next_uuid,      \* source of fresh identifiers (uuid4)
    unit_args,      \* arguments of a direct call of one scoring function
    unit_result     \* value returned (or error raised) by that call

vars == <<settings, pc, request, transactions, decision, plan, response, error,
          bank_attempt, hook_attempt, hook_result, hook_sleeps, hook_delays, bank_reply,
          engine_args, engine_out, db_decisions, db_plans, ledger, next_uuid,
          unit_args, unit_result>>

-----------------------------------------------------------------------------
(* Bounds of the model *)

\* longest transaction list the bank returns
MaxTxns == 2

-----------------------------------------------------------------------------
(* Arithmetic helpers *)

Min(a, b) == IF a <= b THEN a ELSE b

Max(a, b) == IF a >= b THEN a ELSE b

Abs(a) == IF a < 0 THEN -a ELSE a

\* int(a / b) for b > 0: Python's int() truncates toward zero
TruncDiv(a, b) == IF a >= 0 THEN a \div b ELSE -((-a) \div b)

\* round(a / b) to the nearest integer, ties to even, for b > 0
RoundDiv(a, b) ==
    LET q == a \div b
        r == a % b
    IN  IF 2 * r < b THEN q
        ELSE IF 2 * r > b THEN q + 1
        ELSE IF q % 2 = 0 THEN q ELSE q + 1

RECURSIVE SumSeq(_)
SumSeq(s) == IF s = <<>> THEN 0 ELSE Head(s) + SumSeq(Tail(s))

-----------------------------------------------------------------------------
(* ScoringSettings *)

DefaultSettings ==
    [ min_transactions |-> 10,
      min_history_days |-> 30,
      thin_file_limit_cents |-> 10000,
      weight_adb |-> 30,
      weight_ratio |-> 35,
      weight_nsf |-> 35,
      gig_worker_consistency_threshold |-> 50,
      gig_worker_ratio_threshold |-> 120,
      gig_worker_boost |-> 10,
      approval_threshold |-> 30,
      adb_negative_floor |-> -200,
      adb_low_threshold |-> 100,
      adb_moderate_threshold |-> 500,
      adb_good_threshold |-> 1500,
      ratio_critical_threshold |-> 80,
      ratio_breakeven_threshold |-> 100,
      ratio_sustainable_threshold |-> 130,
      ratio_healthy_threshold |-> 200,
      nsf_forgivable_count |-> 1,
      nsf_concerning_count |-> 2,
      nsf_high_risk_count |-> 4,
      credit_limit_tiers |-> << <<0, 29, 0>>, <<30, 44, 10000>>, <<45, 59, 20000>>,
                                <<60, 74, 30000>>, <<75, 84, 40000>>,
                                <<85, 94, 50000>>, <<95, 100, 60000>> >> ]

\* SCORING_MIN_TRANSACTIONS / SCORING_MIN_HISTORY_DAYS overridden in the
\* environment, so that short histories reach the standard scoring path
ShortHistorySettings ==
    [DefaultSettings EXCEPT !.min_transactions = 2, !.min_history_days = 2]

\* ScoringSettings.validate_tiers_json on a parsed list of integer triples:
\* TRUE when no ValueError is raised
validate_tiers_json(tiers) ==
    \A k \in DOMAIN tiers :
        /\ ~(tiers[k][1] > tiers[k][2])
        /\ ~(tiers[k][3] < 0)

-----------------------------------------------------------------------------
(* service/scoring/risk_factors.py *)

RECURSIVE InsertByDate(_, _)
InsertByDate(t, s) ==
    IF s = <<>> THEN <<t>>
    ELSE IF s[Len(s)].date <= t.date THEN Append(s, t)
    ELSE Append(InsertByDate(t, SubSeq(s, 1, Len(s) - 1)), s[Len(s)])

\* sorted(transactions, key=lambda t: t.date): stable, ascending by date
RECURSIVE SortedByDate(_)
SortedByDate(txns) ==
    IF txns = <<>> THEN <<>>
    ELSE InsertByDate(txns[Len(txns)], SortedByDate(SubSeq(txns, 1, Len(txns) - 1)))

\* the dict date -> balance_cents filled in sorted order (last write wins)
DailyBalances(txns) ==
    LET s == SortedByDate(txns)
    IN  [d \in {s[i].date : i \in DOMAIN s} |->
            LET last == CHOOSE i \in DOMAIN s :
                            /\ s[i].date = d
                            /\ \A j \in DOMAIN s : s[j].date = d => j <= i
            IN  s[last].balance_cents]

MinDate(daily) == CHOOSE d \in DOMAIN daily : \A e \in DOMAIN daily : d <= e

\* last_balance after the loop iteration of a day: the balance of the most
\* recent date up to that day, 0 while no date has been met
LastBalance(daily, day) ==
    LET seen == {d \in DOMAIN daily : d <= day}
    IN  IF seen = {} THEN 0
        ELSE daily[CHOOSE d \in seen : \A e \in seen : e <= d]

\* the while loop: total_cents accumulated over the days from_date .. to_date
\* (summed by halves to keep the evaluation shallow)
RECURSIVE WalkDays(_, _, _)
WalkDays(daily, from_date, to_date) ==
    IF from_date > to_date THEN 0
    ELSE IF from_date = to_date THEN LastBalance(daily, from_date)
    ELSE WalkDays(daily, from_date, (from_date + to_date) \div 2)
         + WalkDays(daily, (from_date + to_date) \div 2 + 1, to_date)

calculate_avg_daily_balance_91_days(txns) ==
    IF txns = <<>> THEN [raised |-> TRUE, total_cents |-> 0, num_days |-> 0]
    ELSE LET daily == DailyBalances(txns)
             start_date == MinDate(daily)
             end_date == start_date + 90
         IN  [raised |-> FALSE,
              total_cents |-> WalkDays(daily, start_date, end_date),
              num_days |-> (end_date - start_date) + 1]

\* Returns [raised, total_cents, num_days]; the code's float result is
\* total_cents / (num_days * 100) dollars.  raised = TRUE is the ValueError.
calculate_avg_daily_balance(txns) ==
    IF txns = <<>> THEN [raised |-> TRUE, total_cents |-> 0, num_days |-> 0]
    ELSE LET daily == DailyBalances(txns)
             start_date == MinDate(daily)
             end_date == start_date + 89
         IN  [raised |-> FALSE,
              total_cents |-> WalkDays(daily, start_date, end_date),
              num_days |-> (end_date - start_date) + 1]

RECURSIVE SumAmounts(_, _)
SumAmounts(txns, type) ==
    IF txns = <<>> THEN 0
    ELSE (IF Head(txns).type = type THEN Head(txns).amount_cents ELSE 0)
         + SumAmounts(Tail(txns), type)

calculate_income_spend_ratio_zero_without_income(txns) ==
    IF txns = <<>> THEN [inf |-> FALSE, num |-> 1, den |-> 1]
    ELSE LET total_credits == SumAmounts(txns, "credit")
             total_debits == Abs(SumAmounts(txns, "debit"))
         IN  IF total_debits = 0
             THEN IF total_credits > 0 THEN [inf |-> TRUE, num |-> 1, den |-> 0]
                  ELSE [inf |-> FALSE, num |-> 0, den |-> 1]
             ELSE [inf |-> FALSE, num |-> total_credits, den |-> total_debits]

\* Returns the ratio as [inf, num, den]: float('inf'), or num / den.
\* monthly_income / monthly_spending = (credits / 3) / (debits / 3).
calculate_income_spend_ratio(txns) ==
    IF txns = <<>> THEN [inf |-> FALSE, num |-> 1, den |-> 1]
    ELSE LET total_credits == SumAmounts(txns, "credit")
             total_debits == Abs(SumAmounts(txns, "debit"))
         IN  IF total_debits = 0
             THEN IF total_credits > 0 THEN [inf |-> TRUE, num |-> 1, den |-> 0]
                  ELSE [inf |-> FALSE, num |-> 1, den |-> 1]
             ELSE [inf |-> FALSE, num |-> total_credits, den |-> total_debits]

IsNsfEvent_debits_only(txn, prev_balance) ==
    /\ txn.type = "debit"
    /\ (txn.nsf \/ (txn.balance_cents < 0 /\ prev_balance >= 0))

\* the loop body's test: the explicit flag, else a debit going negative
IsNsfEvent(txn, prev_balance) ==
    \/ txn.nsf
    \/ (txn.type = "debit" /\ txn.balance_cents < 0 /\ prev_balance >= 0)

RECURSIVE NsfLoop(_, _, _)
NsfLoop(s, prev_balance, nsf_count) ==
    IF s = <<>> THEN nsf_count
    ELSE LET txn == Head(s)
         IN  NsfLoop(Tail(s), txn.balance_cents,
                     IF IsNsfEvent(txn, prev_balance) THEN nsf_count + 1
                     ELSE nsf_count)

count_nsf_events_unsorted(txns) ==
    IF txns = <<>> THEN 0 ELSE NsfLoop(txns, 0, 0)

count_nsf_events(txns) ==
    IF txns = <<>> THEN 0 ELSE NsfLoop(SortedByDate(txns), 0, 0)

\* ISO calendar week of a date; day 0 of the model's calendar is a Monday, so
\* (ISO year, ISO week) changes exactly every seven days
IsoWeek(d) == d \div 7

Credits(txns) == SelectSeq(txns, LAMBDA t : t.type = "credit")

\* weekly_income[week] summed over the credits
WeeklyIncome(credits) ==
    [w \in {IsoWeek(credits[i].date) : i \in DOMAIN credits} |->
        SumAmounts([i \in DOMAIN credits |->
                      IF IsoWeek(credits[i].date) = w THEN credits[i]
                      ELSE [credits[i] EXCEPT !.amount_cents = 0]], "credit")]

RECURSIVE SumOver(_, _)
SumOver(f, dom) ==
    IF dom = {} THEN 0
    ELSE LET x == CHOOSE x \in dom : TRUE IN f[x] + SumOver(f, dom \ {x})

\* the neutral value 0.5, i.e. a coefficient of variation of 1/2
NeutralConsistency == [supplied |-> TRUE, cv2_num |-> 1, cv2_den |-> 4]

\* income_consistency = None
NoConsistency == [supplied |-> FALSE, cv2_num |-> 1, cv2_den |-> 4]

\* Returns the consistency through the square of the coefficient of
\* variation, cv^2 = cv2_num / cv2_den; the code's float result is
\* min(1.0, max(0.0, 1.0 - cv)).  With k weekly sums v, S = sum v:
\* variance = (k * sum v^2 - S^2) / k^2, mean = S / k, cv^2 = variance / mean^2.
calculate_income_consistency(txns) ==
    LET credits == Credits(txns)
    IN  IF Len(credits) < 3 THEN NeutralConsistency
        ELSE LET weekly == WeeklyIncome(credits)
                 k == Cardinality(DOMAIN weekly)
                 S == SumOver(weekly, DOMAIN weekly)
                 SS == SumOver([w \in DOMAIN weekly |-> weekly[w] * weekly[w]],
                               DOMAIN weekly)
             IN  IF k < 4 THEN NeutralConsistency
                 ELSE IF S <= 0 THEN NeutralConsistency
                 ELSE [supplied |-> TRUE, cv2_num |-> k * SS - S * S,
                       cv2_den |-> S * S]

\* income_consistency < threshold, threshold in hundredths:
\* max(0, 1 - cv) < t/100  iff  t > 0 and cv > (100 - t)/100
ConsistencyBelow(c, threshold) ==
    /\ threshold > 0
    /\ c.cv2_num * 10000 > (100 - threshold) * (100 - threshold) * c.cv2_den

-----------------------------------------------------------------------------
(* service/scoring/thin_file.py *)

UniqueDays(txns) == Cardinality({txns[i].date : i \in DOMAIN txns})

is_thin_file(txns, S) ==
    IF Len(txns) < S.min_transactions THEN TRUE
    ELSE IF UniqueDays(txns) < S.min_history_days THEN TRUE
    ELSE FALSE

handle_thin_file_ignoring_nsf(txns, S) ==
    IF ~is_thin_file(txns, S)
    THEN [thin |-> FALSE, approved |-> FALSE, credit_limit_cents |-> 0]
    ELSE [thin |-> TRUE, approved |-> TRUE,
          credit_limit_cents |-> S.thin_file_limit_cents]

\* Returns [thin, approved, credit_limit_cents]; thin = FALSE is the code's None
handle_thin_file(txns, S) ==
    IF ~is_thin_file(txns, S)
    THEN [thin |-> FALSE, approved |-> FALSE, credit_limit_cents |-> 0]
    ELSE IF count_nsf_events(txns) > 0
    THEN [thin |-> TRUE, approved |-> FALSE, credit_limit_cents |-> 0]
    ELSE [thin |-> TRUE, approved |-> TRUE,
          credit_limit_cents |-> S.thin_file_limit_cents]

-----------------------------------------------------------------------------
(* service/scoring/risk_score.py *)

\* adb = num / den dollars (den > 0); thresholds of S in dollars
score_avg_daily_balance(num, den, S) ==
    IF num < 0
    THEN Max(0, TruncDiv(200 * den + num, 10 * den))
    ELSE IF num < S.adb_low_threshold * den
    THEN 20 + TruncDiv(num * 20, S.adb_low_threshold * den)
    ELSE IF num < S.adb_moderate_threshold * den
    THEN 40 + TruncDiv((num - S.adb_low_threshold * den) * 30,
                       (S.adb_moderate_threshold - S.adb_low_threshold) * den)
    ELSE IF num < S.adb_good_threshold * den
    THEN 70 + TruncDiv((num - S.adb_moderate_threshold * den) * 20,
                       (S.adb_good_threshold - S.adb_moderate_threshold) * den)
    ELSE Min(100, 90 + TruncDiv(num - S.adb_good_threshold * den, 500 * den) * 10)

\* ratio = [inf, num, den]; thresholds of S in hundredths
score_income_spend_ratio(ratio, S) ==
    LET n == 100 * ratio.num
        d == ratio.den
    IN  IF ratio.inf THEN 100
        ELSE IF n < S.ratio_critical_threshold * d
        THEN TruncDiv(n * 25, S.ratio_critical_threshold * d)
        ELSE IF n < S.ratio_breakeven_threshold * d
        THEN 25 + TruncDiv((n - S.ratio_critical_threshold * d) * 25,
                 (S.ratio_breakeven_threshold - S.ratio_critical_threshold) * d)
        ELSE IF n < S.ratio_sustainable_threshold * d
        THEN 50 + TruncDiv((n - S.ratio_breakeven_threshold * d) * 25,
                 (S.ratio_sustainable_threshold - S.ratio_breakeven_threshold) * d)
        ELSE IF n < S.ratio_healthy_threshold * d
        THEN 75 + TruncDiv((n - S.ratio_sustainable_threshold * d) * 15,
                 (S.ratio_healthy_threshold - S.ratio_sustainable_threshold) * d)
        ELSE Min(100, 90 + TruncDiv((n - S.ratio_healthy_threshold * d) * 10,
                                    100 * d))

score_nsf_count(nsf_count, S) ==
    IF nsf_count = 0 THEN 100
    ELSE IF nsf_count <= S.nsf_forgivable_count THEN 75
    ELSE IF nsf_count <= S.nsf_concerning_count THEN 50
    ELSE IF nsf_count <= S.nsf_high_risk_count THEN 25
    ELSE 0

\* income_spend_ratio > threshold, threshold in hundredths
RatioAbove(ratio, threshold) ==
    ratio.inf \/ 100 * ratio.num > threshold * ratio.den

\* The sub-score triples <<adb_score, ratio_score, nsf_score>> for which the
\* double-precision sum adb*0.30 + ratio*0.35 + nsf*0.35 falls just short of
\* the exact value, an integer, so that int() yields one unit nearer to zero
\* (adb 0..100, ratio -100..100, nsf in {0, 25, 50, 75, 100}).
FloatShortfall ==
    { <<0, -90, 50>>, <<0, -85, 25>>, <<0, -45, 25>>, <<1, -88, 50>>,
      <<1, -83, 25>>, <<1, -78, 0>>, <<1, -68, 50>>, <<1, -63, 25>>,
      <<1, -58, 0>>, <<1, -43, 25>>, <<1, -38, 0>>, <<1, 22, 0>>,
      <<1, 92, 50>>, <<1, 97, 25>>, <<2, -96, 0>>, <<2, -91, 75>>,
      <<2, -86, 50>>, <<2, -81, 25>>, <<2, -76, 0>>, <<2, -66, 50>>,
      <<2, -61, 25>>, <<2, -56, 0>>, <<2, 24, 0>>, <<2, 44, 0>>,
      <<3, -39, 25>>, <<3, -34, 0>>, <<3, -14, 0>>, <<3, 6, 0>>,
      <<3, 46, 0>>, <<3, 61, 25>>, <<3, 66, 0>>, <<3, 86, 0>>, <<3, 96, 50>>,
      <<4, -97, 25>>, <<4, -92, 0>>, <<4, -12, 0>>, <<4, 28, 0>>,
      <<4, 48, 0>>, <<4, 63, 25>>, <<4, 68, 0>>, <<4, 88, 0>>, <<5, -90, 0>>,
      <<5, -85, 75>>, <<6, -93, 25>>, <<6, -88, 0>>, <<6, -83, 75>>,
      <<6, -78, 50>>, <<6, -73, 25>>, <<6, -68, 0>>, <<6, -58, 50>>,
      <<6, -53, 25>>, <<6, -48, 0>>, <<6, -28, 0>>, <<6, 12, 0>>,
      <<6, 92, 0>>, <<6, 97, 75>>, <<7, -96, 50>>, <<7, -91, 25>>,
      <<7, -86, 0>>, <<7, -76, 50>>, <<7, -71, 25>>, <<7, -66, 0>>,
      <<7, -51, 25>>, <<7, -46, 0>>, <<7, 34, 0>>, <<8, -49, 25>>,
      <<8, -44, 0>>, <<8, -24, 0>>, <<8, 51, 25>>, <<8, 56, 0>>,
      <<8, 76, 0>>, <<8, 96, 0>>, <<9, -97, 75>>, <<9, -92, 50>>,
      <<9, -2, 0>>, <<9, 38, 0>>, <<9, 53, 25>>, <<9, 58, 0>>, <<9, 78, 0>>,
      <<10, -90, 50>>, <<10, -85, 25>>, <<10, -45, 25>>, <<11, -98, 0>>,
      <<11, -93, 75>>, <<11, -88, 50>>, <<11, -83, 25>>, <<11, -78, 0>>,
      <<11, -68, 50>>, <<11, -63, 25>>, <<11, -58, 0>>, <<11, 92, 50>>,
      <<11, 97, 25>>, <<12, -96, 0>>, <<12, -56, 0>>, <<12, 24, 0>>,
      <<13, -54, 0>>, <<13, -39, 25>>, <<13, -34, 0>>, <<13, -14, 0>>,
      <<13, 46, 0>>, <<13, 66, 0>>, <<13, 96, 50>>, <<14, -97, 25>>,
      <<14, -92, 0>>, <<14, -32, 0>>, <<14, 48, 0>>, <<14, 68, 0>>,
      <<15, -90, 0>>, <<16, -98, 50>>, <<16, -93, 25>>, <<16, -88, 0>>,
      <<16, -78, 50>>, <<16, -73, 25>>, <<16, -68, 0>>, <<16, -53, 25>>,
      <<16, -48, 0>>, <<16, -28, 0>>, <<16, 92, 0>>, <<17, -96, 50>>,
      <<17, -51, 25>>, <<17, -46, 0>>, <<18, -24, 0>>, <<18, -4, 0>>,
      <<18, 51, 25>>, <<18, 56, 0>>, <<18, 76, 0>>, <<18, 96, 0>>,
      <<19, -97, 75>>, <<19, -92, 50>>, <<19, -22, 0>>, <<19, 58, 0>>,
      <<20, -90, 50>>, <<20, -85, 25>>, <<20, -45, 25>>, <<21, -98, 0>>,
      <<21, -88, 50>>, <<21, -83, 25>>, <<21, -78, 0>>, <<21, -63, 25>>,
      <<21, -58, 0>>, <<21, -38, 0>>, <<21, 92, 50>>, <<21, 97, 25>>,
      <<22, -96, 0>>, <<22, -61, 25>>, <<22, -56, 0>>, <<22, 24, 0>>,
      <<23, -34, 0>>, <<23, 46, 0>>, <<23, 66, 0>>, <<23, 96, 50>>,
      <<24, -97, 25>>, <<24, -92, 0>>, <<24, 48, 0>>, <<24, 68, 0>>,
      <<25, -90, 0>>, <<26, -98, 50>>, <<26, -93, 25>>, <<26, -88, 0>>,
      <<26, -78, 50>>, <<26, -73, 25>>, <<26, -68, 0>>, <<26, -53, 25>>,
      <<26, -48, 0>>, <<26, -28, 0>>, <<26, 92, 0>>, <<27, -96, 50>>,
      <<27, -66, 0>>, <<27, -51, 25>>, <<27, -46, 0>>, <<28, -69, 25>>,
      <<28, -64, 0>>, <<28, -44, 0>>, <<28, 96, 0>>, <<29, -92, 50>>,
      <<29, -2, 0>>, <<29, 58, 0>>, <<30, -90, 50>>, <<30, -85, 25>>,
      <<31, -63, 25>>, <<31, -58, 0>>, <<31, -18, 0>>, <<31, 2, 0>>,
      <<31, 92, 50>>, <<31, 97, 25>>, <<32, -96, 0>>, <<32, -61, 25>>,
      <<32, -56, 0>>, <<33, -74, 0>>, <<33, -59, 25>>, <<33, -54, 0>>,
      <<33, -34, 0>>, <<33, 96, 50>>, <<34, -97, 25>>, <<34, -92, 0>>,
      <<34, 48, 0>>, <<35, -90, 0>>, <<36, -73, 25>>, <<36, -68, 0>>,
      <<36, -48, 0>>, <<36, -8, 0>>, <<36, 12, 0>>, <<36, 92, 0>>,
      <<37, -96, 50>>, <<37, -71, 25>>, <<37, -66, 0>>, <<37, -46, 0>>,
      <<38, -69, 25>>, <<38, -64, 0>>, <<38, -44, 0>>, <<38, 96, 0>>,
      <<39, -92, 50>>, <<39, 58, 0>>, <<40, -90, 50>>, <<40, -85, 25>>,
      <<41, -78, 0>>, <<41, -63, 25>>, <<41, -58, 0>>, <<41, -18, 0>>,
      <<41, 2, 0>>, <<41, 92, 50>>, <<41, 97, 25>>, <<42, -96, 0>>,
      <<42, -81, 25>>, <<42, -76, 0>>, <<42, -56, 0>>, <<43, -79, 25>>,
      <<43, -74, 0>>, <<43, -54, 0>>, <<43, 96, 50>>, <<44, -97, 25>>,
      <<44, -92, 0>>, <<44, 48, 0>>, <<45, -90, 0>>, <<46, -73, 25>>,
      <<46, -68, 0>>, <<46, -48, 0>>, <<46, 92, 0>>, <<47, -96, 50>>,
      <<47, -86, 0>>, <<47, -71, 25>>, <<47, -66, 0>>, <<47, -46, 0>>,
      <<48, -4, 0>>, <<48, 96, 0>>, <<50, -85, 25>>, <<51, -83, 25>>,
      <<51, -78, 0>>, <<51, -58, 0>>, <<51, 2, 0>>, <<51, 97, 25>>,
      <<52, -96, 0>>, <<52, -81, 25>>, <<52, -76, 0>>, <<52, -56, 0>>,
      <<53, 46, 0>>, <<54, -97, 25>>, <<54, -92, 0>>, <<55, -90, 0>>,
      <<56, -93, 25>>, <<56, -88, 0>>, <<56, -68, 0>>, <<57, -31, 25>>,
      <<57, -26, 0>>, <<57, -6, 0>>, <<57, 9, 25>>, <<57, 14, 0>>,
      <<57, 34, 0>>, <<58, -4, 0>>, <<58, 96, 0>>, <<60, -85, 25>>,
      <<61, -98, 0>>, <<61, -83, 25>>, <<61, -78, 0>>, <<61, -58, 0>>,
      <<62, -96, 0>>, <<62, -41, 25>>, <<62, -36, 0>>, <<62, -16, 0>>,
      <<62, -1, 25>>, <<62, 4, 0>>, <<62, 24, 0>>, <<64, -97, 25>>,
      <<64, -92, 0>>, <<65, -90, 0>>, <<66, -93, 25>>, <<66, -88, 0>>,
      <<66, -68, 0>>, <<67, -26, 0>>, <<67, 9, 25>>, <<67, 14, 0>>,
      <<67, 34, 0>>, <<68, 96, 0>>, <<71, -98, 0>>, <<71, -78, 0>>,
      <<72, -96, 0>>, <<72, -41, 25>>, <<72, -36, 0>>, <<72, -16, 0>>,
      <<72, -1, 25>>, <<72, 4, 0>>, <<72, 24, 0>>, <<74, -97, 25>>,
      <<74, -92, 0>>, <<75, -90, 0>>, <<76, -93, 25>>, <<76, -88, 0>>,
      <<76, -68, 0>>, <<77, -26, 0>>, <<77, 14, 0>>, <<78, 96, 0>>,
      <<81, -98, 0>>, <<81, -78, 0>>, <<82, -96, 0>>, <<82, -36, 0>>,
      <<82, 4, 0>>, <<84, -92, 0>>, <<85, -90, 0>>, <<86, -88, 0>>,
      <<87, 14, 0>>, <<88, 96, 0>>, <<91, -98, 0>>, <<92, -96, 0>>,
      <<92, -36, 0>>, <<92, 4, 0>>, <<94, -92, 0>>, <<95, -90, 0>>,
      <<96, -8, 0>>, <<96, 92, 0>>, <<98, 96, 0>> }

\* int(composite) for the weighted sum of three sub-scores
CompositeScore(adb_score, ratio_score, nsf_score, S) ==
    LET exact == TruncDiv(adb_score * S.weight_adb + ratio_score * S.weight_ratio
                          + nsf_score * S.weight_nsf, 100)
        short == /\ S.weight_adb = 30 /\ S.weight_ratio = 35 /\ S.weight_nsf = 35
                 /\ <<adb_score, ratio_score, nsf_score>> \in FloatShortfall
    IN  IF ~short THEN exact
        ELSE IF exact > 0 THEN exact - 1 ELSE exact + 1

AdjustedRatioScore_uncapped(ratio, income_consistency, S) ==
    LET ratio_score == score_income_spend_ratio(ratio, S)
    IN  IF /\ income_consistency.supplied
           /\ ConsistencyBelow(income_consistency,
                               S.gig_worker_consistency_threshold)
           /\ RatioAbove(ratio, S.gig_worker_ratio_threshold)
        THEN ratio_score + S.gig_worker_boost
        ELSE ratio_score

\* the ratio sub-score after the gig worker adjustment
AdjustedRatioScore(ratio, income_consistency, S) ==
    LET ratio_score == score_income_spend_ratio(ratio, S)
    IN  IF /\ income_consistency.supplied
           /\ ConsistencyBelow(income_consistency,
                               S.gig_worker_consistency_threshold)
           /\ RatioAbove(ratio, S.gig_worker_ratio_threshold)
        THEN Min(100, ratio_score + S.gig_worker_boost)
        ELSE ratio_score

\* adb = adb_num / adb_den dollars
calculate_risk_score(adb_num, adb_den, ratio, nsf_count, income_consistency, S) ==
    CompositeScore(score_avg_daily_balance(adb_num, adb_den, S),
                   AdjustedRatioScore(ratio, income_consistency, S),
                   score_nsf_count(nsf_count, S), S)

-----------------------------------------------------------------------------
(* service/scoring/credit_limit.py *)

RECURSIVE FirstTierLimit(_, _)
FirstTierLimit(tiers, score) ==
    IF tiers = <<>> THEN 0
    ELSE IF Head(tiers)[1] <= score /\ score <= Head(tiers)[2] THEN Head(tiers)[3]
    ELSE FirstTierLimit(Tail(tiers), score)

score_to_credit_limit_cents_unclamped(risk_score, S) ==
    FirstTierLimit(S.credit_limit_tiers, risk_score)

score_to_credit_limit_cents(risk_score, S) ==
    LET clamped == IF risk_score < 0 THEN 0
                   ELSE IF risk_score > 100 THEN 100 ELSE risk_score
    IN  FirstTierLimit(S.credit_limit_tiers, clamped)

is_approved(risk_score, S) == score_to_credit_limit_cents(risk_score, S) > 0

-----------------------------------------------------------------------------
(* Values shared by the two decision implementations *)

\* Optional[UUID] = None; identifiers drawn from next_uuid start at 1
None == 0

\* DecisionFactors: avg_daily_balance in hundredths of a dollar,
\* income_ratio as [inf, hundredths]
Factors(avg_daily_balance, ratio_inf, ratio_hundredths, nsf_count, risk_score) ==
    [ avg_daily_balance |-> avg_daily_balance,
      income_ratio |-> [inf |-> ratio_inf, hundredths |-> ratio_hundredths],
      nsf_count |-> nsf_count,
      risk_score |-> risk_score ]

\* round(avg_daily_balance, 2), in hundredths of a dollar:
\* 100 * total_cents / (num_days * 100) = total_cents / num_days
RoundAdb(adb) == RoundDiv(adb.total_cents, adb.num_days)

\* round(income_ratio, 2), in hundredths; round(inf, 2) is inf
RoundRatio(ratio) ==
    IF ratio.inf THEN [inf |-> TRUE, hundredths |-> 0]
    ELSE [inf |-> FALSE, hundredths |-> RoundDiv(100 * ratio.num, ratio.den)]

\* 999.99
DisplayRatioCap == 99999

-----------------------------------------------------------------------------
(* application/services/decision_service.py: DecisionService *)

NUM_INSTALLMENTS == 4

DAYS_BETWEEN_INSTALLMENTS == 14

\* The Decision entity; id (uuid4) and plan_id are filled in by make_decision
DecisionEntity(user_id, approved, credit_limit_cents, amount_requested, granted, factors) ==
    [ id |-> None,
      user_id |-> user_id,
      approved |-> approved,
      credit_limit_cents |-> credit_limit_cents,
      amount_requested_cents |-> amount_requested,
      amount_granted_cents |-> granted,
      decision_factors |-> factors,
      plan_id |-> None ]

NoDecision ==
    DecisionEntity("", FALSE, 0, 0, 0, Factors(0, FALSE, 0, 0, 0))

amount_granted_uncapped(approved, amount_requested, credit_limit_cents) ==
    IF approved THEN amount_requested ELSE 0

\* amount_granted = min(amount_requested, credit_limit_cents) if approved else 0
amount_granted(approved, amount_requested, credit_limit_cents) ==
    IF approved THEN Min(amount_requested, credit_limit_cents) ELSE 0

\* _calculate_decision after its empty-list guard: the thin-file branch and
\* the standard scoring branch.
\* Returns [raised, decision]: raised = TRUE when a callee raised ValueError.
ScoredDecision(user_id, amount_requested, txns, S) ==
    LET thin_file_result == handle_thin_file(txns, S)
        avg_daily_balance == calculate_avg_daily_balance(txns)
        income_ratio == calculate_income_spend_ratio(txns)
        nsf_count == count_nsf_events(txns)
    IN  IF avg_daily_balance.raised
        THEN [raised |-> TRUE, decision |-> NoDecision]
        ELSE IF thin_file_result.thin
        THEN LET approved == thin_file_result.approved
                 credit_limit_cents == thin_file_result.credit_limit_cents
                 shown == RoundRatio(income_ratio)
             IN  [raised |-> FALSE,
                  decision |->
                    DecisionEntity(user_id, approved, credit_limit_cents,
                        amount_requested,
                        amount_granted(approved, amount_requested,
                                       credit_limit_cents),
                        Factors(RoundAdb(avg_daily_balance), shown.inf,
                                shown.hundredths, nsf_count,
                                IF approved THEN 30 ELSE 0))]
        ELSE LET income_consistency == calculate_income_consistency(txns)
                 risk_score ==
                     calculate_risk_score(avg_daily_balance.total_cents,
                         avg_daily_balance.num_days * 100, income_ratio,
                         nsf_count, income_consistency, S)
                 credit_limit_cents == score_to_credit_limit_cents(risk_score, S)
                 approved == credit_limit_cents > 0
                 display_ratio ==
                     IF income_ratio.inf
                     THEN [inf |-> FALSE, hundredths |-> DisplayRatioCap]
                     ELSE RoundRatio(income_ratio)
             IN  [raised |-> FALSE,
                  decision |->
                    DecisionEntity(user_id, approved, credit_limit_cents,
                        amount_requested,
                        amount_granted(approved, amount_requested,
                                       credit_limit_cents),
                        Factors(RoundAdb(avg_daily_balance), display_ratio.inf,
                                display_ratio.hundredths, nsf_count, risk_score))]

_calculate_decision_unguarded(user_id, amount_requested, txns, S) ==
    ScoredDecision(user_id, amount_requested, txns, S)

_calculate_decision(user_id, amount_requested, txns, S) ==
    IF txns = <<>>
    THEN [raised |-> FALSE,
          decision |-> DecisionEntity(user_id, FALSE, 0, amount_requested, 0,
                                      Factors(0, FALSE, 0, 0, 0))]
    ELSE ScoredDecision(user_id, amount_requested, txns, S)

due_date_from_today(today, i) ==
    today + i * DAYS_BETWEEN_INSTALLMENTS

\* due date of installment i (0-based) of a plan built on date today
due_date(today, i) ==
    LET start_date == today + DAYS_BETWEEN_INSTALLMENTS
    IN  start_date + i * DAYS_BETWEEN_INSTALLMENTS

InstallmentOf_remainder_dropped(plan_id, amount_cents, today, first_id, i) ==
    [ id |-> first_id + i,
      plan_id |-> plan_id,
      due_date |-> today + DAYS_BETWEEN_INSTALLMENTS
                   + i * DAYS_BETWEEN_INSTALLMENTS,
      amount_cents |-> amount_cents \div NUM_INSTALLMENTS,
      status |-> "scheduled" ]

\* Installment i (0-based) of the plan built on date today
InstallmentOf(plan_id, amount_cents, today, first_id, i) ==
    LET base_amount == amount_cents \div NUM_INSTALLMENTS
        remainder == amount_cents % NUM_INSTALLMENTS
    IN  [ id |-> first_id + i,
          plan_id |-> plan_id,
          due_date |-> due_date(today, i),
          amount_cents |-> base_amount + (IF i = 0 THEN remainder ELSE 0),
          status |-> "scheduled" ]

_create_plan_remainder_by_id(user_id, decision_id, amount_cents, today, plan_id) ==
    [ id |-> plan_id,
      user_id |-> user_id,
      decision_id |-> decision_id,
      total_cents |-> amount_cents,
      installments |->
          [k \in 1..NUM_INSTALLMENTS |->
              [InstallmentOf(plan_id, amount_cents, today, plan_id + 1, k - 1)
               EXCEPT !.amount_cents =
                   amount_cents \div NUM_INSTALLMENTS
                   + (IF k - 1 = plan_id % NUM_INSTALLMENTS
                      THEN amount_cents % NUM_INSTALLMENTS ELSE 0)]] ]

\* plan_id and the installment ids are the fresh uuids plan_id .. plan_id + 4
_create_plan(user_id, decision_id, amount_cents, today, plan_id) ==
    [ id |-> plan_id,
      user_id |-> user_id,
      decision_id |-> decision_id,
      total_cents |-> amount_cents,
      installments |->
          [k \in 1..NUM_INSTALLMENTS |->
              InstallmentOf(plan_id, amount_cents, today, plan_id + 1, k - 1)] ]

NoPlan ==
    [id |-> None, user_id |-> "", decision_id |-> None, total_cents |-> 0,
     installments |-> <<>>]

\* DecisionResponse.from_entity (the factors are already rounded)
DecisionResponse(d) ==
    [ present |-> TRUE,
      approved |-> d.approved,
      credit_limit_cents |-> d.credit_limit_cents,
      amount_granted_cents |-> d.amount_granted_cents,
      plan_id |-> d.plan_id,
      decision_factors |-> d.decision_factors ]

NoResponse ==
    [ present |-> FALSE, approved |-> FALSE, credit_limit_cents |-> 0,
      amount_granted_cents |-> 0, plan_id |-> None,
      decision_factors |-> Factors(0, FALSE, 0, 0, 0) ]

\* DecisionRequest.validate: the list of error messages
Validate(req) ==
    (IF req.user_id = "" THEN <<"user_id is required">> ELSE <<>>)
    \o (IF req.amount_cents_requested <= 0
        THEN <<"amount_cents_requested must be positive">> ELSE <<>>)

-----------------------------------------------------------------------------
(* service/scoring/decision.py: make_decision *)

amount_granted_cents_uncapped(approved, amount_requested_cents, credit_limit_cents) ==
    IF approved THEN amount_requested_cents ELSE 0

\* amount_granted_cents = min(amount_requested_cents, credit_limit_cents)
\*                        if approved else 0
amount_granted_cents(approved, amount_requested_cents, credit_limit_cents) ==
    IF approved THEN Min(amount_requested_cents, credit_limit_cents) ELSE 0

engine_plan_id_when_asked(approved, generate_plan_id, fresh_uuid) ==
    IF generate_plan_id THEN fresh_uuid ELSE None

\* plan_id = str(uuid.uuid4()) if approved and generate_plan_id else None
engine_plan_id(approved, generate_plan_id, fresh_uuid) ==
    IF approved /\ generate_plan_id THEN fresh_uuid ELSE None

NoEngineOut ==
    [raised |-> FALSE, approved |-> FALSE, credit_limit_cents |-> 0,
     amount_granted_cents |-> 0, plan_id |-> None,
     decision_factors |-> Factors(0, FALSE, 0, 0, 0)]

\* The scoring module's Decision; fresh_uuid stands for str(uuid.uuid4()).
\* raised = TRUE when a callee raised ValueError.
make_decision(txns, amount_requested_cents, generate_plan_id, fresh_uuid, S) ==
    IF txns = <<>>
    THEN NoEngineOut
    ELSE
    LET thin_file_result == handle_thin_file(txns, S)
        avg_daily_balance == calculate_avg_daily_balance(txns)
        income_ratio == calculate_income_spend_ratio(txns)
        nsf_count == count_nsf_events(txns)
        Result(approved, credit_limit_cents, factors) ==
            [raised |-> FALSE, approved |-> approved,
             credit_limit_cents |-> credit_limit_cents,
             amount_granted_cents |->
                 amount_granted_cents(approved, amount_requested_cents,
                                      credit_limit_cents),
             plan_id |-> engine_plan_id(approved, generate_plan_id, fresh_uuid),
             decision_factors |-> factors]
    IN  IF avg_daily_balance.raised
        THEN [NoEngineOut EXCEPT !.raised = TRUE]
        ELSE IF thin_file_result.thin
        THEN LET shown == RoundRatio(income_ratio)
             IN  Result(thin_file_result.approved,
                        thin_file_result.credit_limit_cents,
                        Factors(RoundAdb(avg_daily_balance), shown.inf,
                                shown.hundredths, nsf_count,
                                IF ~thin_file_result.approved THEN 0 ELSE 30))
        ELSE LET income_consistency == calculate_income_consistency(txns)
                 risk_score ==
                     calculate_risk_score(avg_daily_balance.total_cents,
                         avg_daily_balance.num_days * 100, income_ratio,
                         nsf_count, income_consistency, S)
                 credit_limit_cents == score_to_credit_limit_cents(risk_score, S)
                 shown == IF ~income_ratio.inf THEN RoundRatio(income_ratio)
                          ELSE [inf |-> FALSE, hundredths |-> DisplayRatioCap]
             IN  Result(credit_limit_cents > 0, credit_limit_cents,
                        Factors(RoundAdb(avg_daily_balance), shown.inf,
                                shown.hundredths, nsf_count, risk_score))

-----------------------------------------------------------------------------
(* infrastructure: repositories and clients *)

\* HttpBankAPIClient(max_retries=3)
BankMaxRetries == 3

\* HttpLedgerWebhookClient(max_retries=5)
WebhookMaxRetries == 5

\* PostgresDecisionRepository._get_score_band
_get_score_band(risk_score) ==
    IF risk_score >= 95 THEN "excellent"
    ELSE IF risk_score >= 85 THEN "very_good"
    ELSE IF risk_score >= 75 THEN "good"
    ELSE IF risk_score >= 60 THEN "moderate"
    ELSE IF risk_score >= 45 THEN "low"
    ELSE IF risk_score >= 30 THEN "starter"
    ELSE "declined"

\* PostgresDecisionRepository.save: the DecisionModel row
DecisionModel(d) ==
    [ id |-> d.id,
      user_id |-> d.user_id,
      requested_cents |-> d.amount_requested_cents,
      approved |-> d.approved,
      credit_limit_cents |-> d.credit_limit_cents,
      amount_granted_cents |-> d.amount_granted_cents,
      score_numeric |-> d.decision_factors.risk_score,
      score_band |-> _get_score_band(d.decision_factors.risk_score) ]

\* PostgresPlanRepository.save: the PlanModel row with its InstallmentModels
PlanModel(p) ==
    [ id |-> p.id,
      decision_id |-> p.decision_id,
      user_id |-> p.user_id,
      total_cents |-> p.total_cents,
      installments |->
          [k \in DOMAIN p.installments |->
              [ id |-> p.installments[k].id,
                plan_id |-> p.id,
                due_date |-> p.installments[k].due_date,
                amount_cents |-> p.installments[k].amount_cents,
                status |-> p.installments[k].status ]] ]

\* HttpLedgerWebhookClient.send_plan_created: the payload
PlanCreatedPayload(p) ==
    [ event |-> "plan_created",
      plan_id |-> p.id,
      user_id |-> p.user_id,
      total_cents |-> p.total_cents,
      num_installments |-> Len(p.installments),
      installments |->
          [k \in DOMAIN p.installments |->
              [ installment_id |-> p.installments[k].id,
                due_date |-> p.installments[k].due_date,
                amount_cents |-> p.installments[k].amount_cents ]] ]

-----------------------------------------------------------------------------
(* Inputs *)

Callers == {"c1", "c2"}

UserIds == {"", "user_good"}

RequestAmounts == {0, 1, 10003, 70000}

\* values of date.today()
Todays == {0, 3}

TxnDates == {0, 1}

TxnAmounts == {-4000, 9000}

TxnBalances == {-50000, 250000}

\* amount_cents is positive for credits and negative for debits
Txns ==
    { t \in [ date : TxnDates, amount_cents : TxnAmounts,
              balance_cents : TxnBalances, type : {"credit", "debit"},
              nsf : BOOLEAN ] : (t.type = "debit") = (t.amount_cents < 0) }

\* the transaction lists of length 0 .. MaxTxns
TxnLists == UNION {[1..n -> Txns] : n \in 0..MaxTxns}

NoArgs == [amount_requested_cents |-> 0, generate_plan_id |-> FALSE]

NoRequest == [user_id |-> "", amount_cents_requested |-> 0]

\* no scoring function is being called directly
NoUnitCall == [fn |-> "none"]

NoUnitResult == [returned |-> FALSE]

-----------------------------------------------------------------------------
(* State machine *)

\* the state in which the callers in active may start a call, under settings S
StartState(active, S) ==
    /\ settings = S
    /\ pc = [c \in Callers |-> IF c \in active THEN "idle" ELSE "off"]
    /\ request = [c \in Callers |-> NoRequest]
    /\ transactions = [c \in Callers |-> <<>>]
    /\ decision = [c \in Callers |-> NoDecision]
    /\ plan = [c \in Callers |-> NoPlan]
    /\ response = [c \in Callers |-> NoResponse]
    /\ error = [c \in Callers |-> "none"]
    /\ bank_attempt = [c \in Callers |-> 0]
    /\ hook_attempt = [c \in Callers |-> 0]
    /\ hook_result = [c \in Callers |-> "none"]
    /\ hook_sleeps = [c \in Callers |-> 0]
    /\ hook_delays = [c \in Callers |-> <<>>]
    /\ bank_reply = [c \in Callers |-> "none"]
    /\ engine_args = [c \in Callers |-> NoArgs]
    /\ engine_out = [c \in Callers |-> NoEngineOut]
    /\ db_decisions = {}
    /\ db_plans = {}
    /\ ledger = <<>>
    /\ next_uuid = 1

Init ==
    /\ StartState({"c1"}, ShortHistorySettings)
    /\ unit_args = NoUnitCall
    /\ unit_result = NoUnitResult

\* DecisionService.make_decision up to its first await: validation, then the
\* call of bank_client.get_transactions
SubmitFrom(c, user_ids, amounts) ==
    /\ pc[c] = "idle"
    /\ \E user_id \in user_ids, amount \in amounts :
         LET req == [user_id |-> user_id, amount_cents_requested |-> amount]
         IN  /\ request' = [request EXCEPT ![c] = req]
             /\ IF Validate(req) # <<>>
                THEN /\ pc' = [pc EXCEPT ![c] = "raised"]
                     /\ error' = [error EXCEPT
                                     ![c] = "InvalidDecisionRequestException"]
                ELSE /\ pc' = [pc EXCEPT ![c] = "fetching"]
                     /\ error' = error
    /\ UNCHANGED <<unit_args, unit_result, settings, transactions, decision, plan, response,
                   bank_attempt, hook_attempt, hook_result, hook_sleeps, hook_delays,
                   bank_reply, engine_args, engine_out, db_decisions, db_plans,
                   ledger, next_uuid>>

Submit(c) == SubmitFrom(c, UserIds, RequestAmounts)

\* get_transactions: a response below 400 ends the retry loop (its index is
\* dropped); make_decision then runs _convert_transactions and
\* _calculate_decision up to decision_repo.save
BankReturnsFrom(c, histories) ==
    /\ pc[c] = "fetching"
    /\ \E txns \in histories :
         LET res == _calculate_decision(request[c].user_id,
                        request[c].amount_cents_requested, txns, settings)
         IN  /\ transactions' = [transactions EXCEPT ![c] = txns]
             /\ IF res.raised
                THEN /\ pc' = [pc EXCEPT ![c] = "raised"]
                     /\ error' = [error EXCEPT ![c] = "ValueError"]
                     /\ UNCHANGED <<decision, next_uuid>>
                ELSE /\ pc' = [pc EXCEPT ![c] = "saving_decision"]
                     /\ decision' = [decision EXCEPT
                            ![c] = [res.decision EXCEPT !.id = next_uuid]]
                     /\ next_uuid' = next_uuid + 1
                     /\ error' = error
    /\ bank_attempt' = [bank_attempt EXCEPT ![c] = 0]
    /\ bank_reply' = [bank_reply EXCEPT ![c] = "ok"]
    /\ UNCHANGED <<unit_args, unit_result, settings, request, plan, response, hook_attempt,
                   hook_result, hook_sleeps, hook_delays, engine_args, engine_out,
                   db_decisions, db_plans, ledger>>

BankReturns(c) == BankReturnsFrom(c, TxnLists)

BankRejects_as_empty_history(c) ==
    /\ pc[c] = "fetching"
    /\ \E status \in {"404", "500"} :
         bank_reply' = [bank_reply EXCEPT ![c] = status]
    /\ pc' = [pc EXCEPT ![c] = "saving_decision"]
    /\ decision' = [decision EXCEPT ![c] =
          [_calculate_decision(request[c].user_id,
               request[c].amount_cents_requested, <<>>, settings).decision
           EXCEPT !.id = next_uuid]]
    /\ next_uuid' = next_uuid + 1
    /\ UNCHANGED <<unit_args, unit_result, settings, request, transactions, plan, response, error,
                   bank_attempt, hook_attempt, hook_result, hook_sleeps, hook_delays,
                   engine_args, engine_out, db_decisions, db_plans, ledger>>

\* get_transactions: status 404 or another status >= 400 is raised at once
\* and leaves make_decision
BankRejects(c) ==
    /\ pc[c] = "fetching"
    /\ pc' = [pc EXCEPT ![c] = "raised"]
    /\ \E status \in {"404", "500"} :
         /\ bank_reply' = [bank_reply EXCEPT ![c] = status]
         /\ error' = [error EXCEPT ![c] =
                         IF status = "404" THEN "UserNotFoundException"
                         ELSE "BankAPIException"]
    /\ UNCHANGED <<unit_args, unit_result, settings, request, transactions, decision, plan, response,
                   bank_attempt, hook_attempt, hook_result, hook_sleeps, hook_delays,
                   engine_args, engine_out, db_decisions, db_plans, ledger,
                   next_uuid>>

BankAttemptFails_one_more_retry(c) ==
    /\ pc[c] = "fetching"
    /\ \E kind \in {"timeout", "error"} :
         /\ bank_reply' = [bank_reply EXCEPT ![c] = kind]
         /\ IF bank_attempt[c] < BankMaxRetries
            THEN /\ bank_attempt' = [bank_attempt EXCEPT ![c] = @ + 1]
                 /\ UNCHANGED <<pc, error>>
            ELSE /\ pc' = [pc EXCEPT ![c] = "raised"]
                 /\ error' = [error EXCEPT ![c] =
                                 IF kind = "timeout" THEN "BankAPITimeoutException"
                                 ELSE "BankAPIException"]
                 /\ UNCHANGED bank_attempt
    /\ UNCHANGED <<unit_args, unit_result, settings, request, transactions, decision, plan, response,
                   hook_attempt, hook_result, hook_sleeps, hook_delays, engine_args,
                   engine_out, db_decisions, db_plans, ledger, next_uuid>>

\* get_transactions: a timeout or an unexpected exception; sleep and retry,
\* or raise last_exception after the last attempt
BankAttemptFails(c) ==
    /\ pc[c] = "fetching"
    /\ \E kind \in {"timeout", "error"} :
         /\ bank_reply' = [bank_reply EXCEPT ![c] = kind]
         /\ IF bank_attempt[c] < BankMaxRetries - 1
            THEN /\ bank_attempt' = [bank_attempt EXCEPT ![c] = @ + 1]
                 /\ UNCHANGED <<pc, error>>
            ELSE /\ pc' = [pc EXCEPT ![c] = "raised"]
                 /\ error' = [error EXCEPT ![c] =
                                 IF kind = "timeout" THEN "BankAPITimeoutException"
                                 ELSE "BankAPIException"]
                 /\ UNCHANGED bank_attempt
    /\ UNCHANGED <<unit_args, unit_result, settings, request, transactions, decision, plan, response,
                   hook_attempt, hook_result, hook_sleeps, hook_delays, engine_args,
                   engine_out, db_decisions, db_plans, ledger, next_uuid>>

SaveDecisionOn_latest_row(c, todays) ==
    /\ pc[c] = "saving_decision"
    /\ db_decisions' = db_decisions \cup {DecisionModel(decision[c])}
    /\ IF decision[c].approved
       THEN \E today \in todays :
            LET latest == CHOOSE r \in db_decisions' :
                              \A q \in db_decisions' : q.id <= r.id
                p == _create_plan(latest.user_id, latest.id,
                                  latest.amount_granted_cents, today,
                                  next_uuid)
            IN  /\ plan' = [plan EXCEPT ![c] = p]
                /\ decision' = [decision EXCEPT ![c].plan_id = p.id]
                /\ next_uuid' = next_uuid + 1 + NUM_INSTALLMENTS
                /\ pc' = [pc EXCEPT ![c] = "saving_plan"]
                /\ UNCHANGED response
       ELSE /\ response' = [response EXCEPT ![c] = DecisionResponse(decision[c])]
            /\ pc' = [pc EXCEPT ![c] = "done"]
            /\ UNCHANGED <<plan, decision, next_uuid>>
    /\ UNCHANGED <<unit_args, unit_result, settings, request, transactions, error, bank_attempt,
                   hook_attempt, hook_result, hook_sleeps, hook_delays, bank_reply,
                   engine_args, engine_out, db_plans, ledger>>

\* decision_repo.save returns; a declined decision is answered, an approved
\* one gets its plan (_create_plan) and make_decision awaits plan_repo.save
SaveDecisionOn(c, todays) ==
    /\ pc[c] = "saving_decision"
    /\ db_decisions' = db_decisions \cup {DecisionModel(decision[c])}
    /\ IF decision[c].approved
       THEN \E today \in todays :
            LET p == _create_plan(request[c].user_id, decision[c].id,
                                  decision[c].amount_granted_cents, today,
                                  next_uuid)
            IN  /\ plan' = [plan EXCEPT ![c] = p]
                /\ decision' = [decision EXCEPT ![c].plan_id = p.id]
                /\ next_uuid' = next_uuid + 1 + NUM_INSTALLMENTS
                /\ pc' = [pc EXCEPT ![c] = "saving_plan"]
                /\ UNCHANGED response
       ELSE /\ response' = [response EXCEPT ![c] = DecisionResponse(decision[c])]
            /\ pc' = [pc EXCEPT ![c] = "done"]
            /\ UNCHANGED <<plan, decision, next_uuid>>
    /\ UNCHANGED <<unit_args, unit_result, settings, request, transactions, error, bank_attempt,
                   hook_attempt, hook_result, hook_sleeps, hook_delays, bank_reply,
                   engine_args, engine_out, db_plans, ledger>>

SaveDecision(c) == SaveDecisionOn(c, Todays)

SavePlan_not_awaited(c) ==
    /\ pc[c] = "saving_plan"
    /\ db_plans' = db_plans
    /\ pc' = [pc EXCEPT ![c] = "sending_webhook"]
    /\ UNCHANGED <<unit_args, unit_result, settings, request, transactions, decision, plan, response,
                   error, bank_attempt, hook_attempt, hook_result, hook_sleeps, hook_delays,
                   bank_reply, engine_args, engine_out, db_decisions, ledger,
                   next_uuid>>

\* plan_repo.save returns; make_decision awaits ledger_client.send_plan_created
SavePlan(c) ==
    /\ pc[c] = "saving_plan"
    /\ db_plans' = db_plans \cup {PlanModel(plan[c])}
    /\ pc' = [pc EXCEPT ![c] = "sending_webhook"]
    /\ UNCHANGED <<unit_args, unit_result, settings, request, transactions, decision, plan, response,
                   error, bank_attempt, hook_attempt, hook_result, hook_sleeps, hook_delays,
                   bank_reply, engine_args, engine_out, db_decisions, ledger,
                   next_uuid>>

\* _send_webhook: a response below 400; send_plan_created returns True and
\* make_decision returns the response
WebhookAccepted(c) ==
    /\ pc[c] = "sending_webhook"
    /\ ledger' = Append(ledger, PlanCreatedPayload(plan[c]))
    /\ hook_result' = [hook_result EXCEPT ![c] = "True"]
    /\ response' = [response EXCEPT ![c] = DecisionResponse(decision[c])]
    /\ pc' = [pc EXCEPT ![c] = "done"]
    /\ UNCHANGED <<unit_args, unit_result, settings, request, transactions, decision, plan, error,
                   bank_attempt, hook_attempt, hook_sleeps, hook_delays, bank_reply,
                   engine_args, engine_out, db_decisions, db_plans, next_uuid>>

WebhookAttemptFails_raises(c) ==
    /\ pc[c] = "sending_webhook"
    /\ IF hook_attempt[c] < WebhookMaxRetries - 1
       THEN /\ pc' = [pc EXCEPT ![c] = "webhook_backoff"]
            /\ UNCHANGED <<hook_result, error>>
       ELSE /\ hook_result' = [hook_result EXCEPT ![c] = "False"]
            /\ error' = [error EXCEPT ![c] = "WebhookDeliveryError"]
            /\ pc' = [pc EXCEPT ![c] = "raised"]
    /\ UNCHANGED <<unit_args, unit_result, settings, request, transactions, decision, plan, response,
                   bank_attempt, hook_attempt, hook_sleeps, hook_delays, bank_reply,
                   engine_args, engine_out, db_decisions, db_plans, ledger,
                   next_uuid>>

\* _send_webhook: status >= 400, a timeout or another exception; back off, or
\* after the last attempt return False, upon which make_decision returns
WebhookAttemptFails(c) ==
    /\ pc[c] = "sending_webhook"
    /\ \E kind \in {"status", "timeout", "error"} : TRUE
    /\ IF hook_attempt[c] < WebhookMaxRetries - 1
       THEN /\ pc' = [pc EXCEPT ![c] = "webhook_backoff"]
            /\ UNCHANGED <<hook_result, response>>
       ELSE /\ hook_result' = [hook_result EXCEPT ![c] = "False"]
            /\ response' = [response EXCEPT ![c] = DecisionResponse(decision[c])]
            /\ pc' = [pc EXCEPT ![c] = "done"]
    /\ UNCHANGED <<unit_args, unit_result, settings, request, transactions, decision, plan, error,
                   bank_attempt, hook_attempt, hook_sleeps, hook_delays, bank_reply,
                   engine_args, engine_out, db_decisions, db_plans, ledger,
                   next_uuid>>

webhook_delay_linear(attempt) == attempt + 1

\* delay = 2 ** attempt * 0.1 seconds, in tenths of a second
webhook_delay(attempt) == 2 ^ attempt

\* _send_webhook: asyncio.sleep(2 ** attempt * 0.1) is over, next attempt
WebhookBackoffOver(c) ==
    /\ pc[c] = "webhook_backoff"
    /\ hook_attempt' = [hook_attempt EXCEPT ![c] = @ + 1]
    /\ hook_sleeps' = [hook_sleeps EXCEPT ![c] = @ + 1]
    /\ hook_delays' = [hook_delays EXCEPT
                          ![c] = Append(@, webhook_delay(hook_attempt[c]))]
    /\ pc' = [pc EXCEPT ![c] = "sending_webhook"]
    /\ UNCHANGED <<unit_args, unit_result, settings, request, transactions, decision, plan, response,
                   error, bank_attempt, hook_result, bank_reply, engine_args,
                   engine_out, db_decisions, db_plans, ledger, next_uuid>>

\* a direct call of the scoring module's make_decision
EngineCallFrom(c, histories, amounts) ==
    /\ pc[c] = "idle"
    /\ \E txns \in histories, amount \in amounts,
          generate_plan_id \in BOOLEAN :
         LET out == make_decision(txns, amount, generate_plan_id, next_uuid,
                                  settings)
         IN  /\ transactions' = [transactions EXCEPT ![c] = txns]
             /\ engine_args' = [engine_args EXCEPT ![c] =
                                  [amount_requested_cents |-> amount,
                                   generate_plan_id |-> generate_plan_id]]
             /\ engine_out' = [engine_out EXCEPT ![c] = out]
             /\ next_uuid' = IF out.plan_id # None THEN next_uuid + 1
                             ELSE next_uuid
             /\ pc' = [pc EXCEPT ![c] = IF out.raised THEN "engine_raised"
                                        ELSE "engine_done"]
    /\ UNCHANGED <<unit_args, unit_result, settings, request, decision, plan, response, error,
                   bank_attempt, hook_attempt, hook_result, hook_sleeps, hook_delays,
                   bank_reply, db_decisions, db_plans, ledger>>

EngineCall(c) == EngineCallFrom(c, TxnLists, RequestAmounts)

Next ==
    \/ \E c \in Callers : Submit(c)
    \/ \E c \in Callers : BankReturns(c)
    \/ \E c \in Callers : BankRejects(c)
    \/ \E c \in Callers : BankAttemptFails(c)
    \/ \E c \in Callers : SaveDecision(c)
    \/ \E c \in Callers : SavePlan(c)
    \/ \E c \in Callers : WebhookAccepted(c)
    \/ \E c \in Callers : WebhookAttemptFails(c)
    \/ \E c \in Callers : WebhookBackoffOver(c)
    \/ \E c \in Callers : EngineCall(c)

Spec == Init /\ [][Next]_vars

\* every awaited request and sleep ends (the HTTP clients have timeouts), so
\* a call that can take a step eventually takes one
FairSpec == Spec /\ WF_vars(Next)

-----------------------------------------------------------------------------
(* Direct calls of the scoring functions (as the unit tests make them) *)

\* longest transaction list passed to count_nsf_events
MaxNsfTxns == 3

NsfBalances == {-500, 0, 700}

NsfTxns ==
    { t \in [ date : TxnDates, amount_cents : TxnAmounts,
              balance_cents : NsfBalances, type : {"credit", "debit"},
              nsf : BOOLEAN ] : (t.type = "debit") = (t.amount_cents < 0) }

NsfTxnLists == UNION {[1..n -> NsfTxns] : n \in 0..MaxNsfTxns}

\* no request is in progress; one scoring function is called on args
UnitStart(S, calls) ==
    /\ StartState({}, S)
    /\ unit_args \in calls
    /\ unit_result = NoUnitResult

\* the call returns value
UnitReturn(fn, value) ==
    /\ unit_args.fn = fn
    /\ ~unit_result.returned
    /\ unit_result' = [returned |-> TRUE, value |-> value]
    /\ UNCHANGED <<unit_args, settings, pc, request, transactions, decision,
                   plan, response, error, bank_attempt, hook_attempt,
                   hook_result, hook_sleeps, hook_delays, bank_reply, engine_args,
                   engine_out, db_decisions, db_plans, ledger, next_uuid>>

NsfInit ==
    UnitStart(DefaultSettings,
              {[fn |-> "count_nsf_events", transactions |-> txns] :
                   txns \in NsfTxnLists})

CountNsfEvents ==
    UnitReturn("count_nsf_events", count_nsf_events(unit_args.transactions))

NsfNext == CountNsfEvents

NsfSpec == NsfInit /\ [][NsfNext]_vars

\* longest transaction list passed to calculate_avg_daily_balance
MaxAdbTxns == 3

AdbDates == {0, 40, 89, 90}

AdbBalances == {-30000, 12345, 70000}

AdbTxns ==
    [ date : AdbDates, amount_cents : {9000}, balance_cents : AdbBalances,
      type : {"credit"}, nsf : {FALSE} ]

AdbTxnLists == UNION {[1..n -> AdbTxns] : n \in 0..MaxAdbTxns}

AdbInit ==
    UnitStart(DefaultSettings,
              {[fn |-> "calculate_avg_daily_balance", transactions |-> txns] :
                   txns \in AdbTxnLists})

CalculateAvgDailyBalance ==
    UnitReturn("calculate_avg_daily_balance",
               calculate_avg_daily_balance(unit_args.transactions))

AdbNext == CalculateAvgDailyBalance

AdbSpec == AdbInit /\ [][AdbNext]_vars

\* longest transaction list passed to calculate_income_spend_ratio
MaxRatioTxns == 3

\* the amount is signed and not tied to the type by Transaction
RatioAmounts == {-4000, 0, 9000}

RatioTxns ==
    [ date : {0}, amount_cents : RatioAmounts, balance_cents : {250000},
      type : {"credit", "debit"}, nsf : {FALSE} ]

RatioTxnLists == UNION {[1..n -> RatioTxns] : n \in 0..MaxRatioTxns}

RatioInit ==
    UnitStart(DefaultSettings,
              {[fn |-> "calculate_income_spend_ratio", transactions |-> txns] :
                   txns \in RatioTxnLists})

CalculateIncomeSpendRatio ==
    UnitReturn("calculate_income_spend_ratio",
               calculate_income_spend_ratio(unit_args.transactions))

RatioNext == CalculateIncomeSpendRatio

RatioSpec == RatioInit /\ [][RatioNext]_vars

\* longest tier list given in credit_limit_tiers_json, the default list apart
MaxTiers == 2

TierScores == {0, 29, 30, 100}

TierLimits == {-1, 0, 10000}

TierChoices == {<<lo, hi, limit>> : lo \in TierScores, hi \in TierScores,
                                    limit \in TierLimits}

TierLists ==
    UNION {[1..n -> TierChoices] : n \in 0..MaxTiers}
    \cup {DefaultSettings.credit_limit_tiers}

\* scores passed to score_to_credit_limit_cents and is_approved
ScoreInputs == -2..102

TierInit ==
    UnitStart(DefaultSettings,
              {[fn |-> "ScoringSettings", credit_limit_tiers |-> tiers] :
                   tiers \in TierLists})

\* ScoringSettings(): the tier list is validated; an accepted list becomes
\* scoring_settings.credit_limit_tiers
LoadSettings ==
    /\ unit_args.fn = "ScoringSettings"
    /\ ~unit_result.returned
    /\ LET accepted == validate_tiers_json(unit_args.credit_limit_tiers)
       IN  /\ unit_result' = [returned |-> TRUE, raised |-> ~accepted]
           /\ settings' = IF accepted
                          THEN [settings EXCEPT !.credit_limit_tiers =
                                                    unit_args.credit_limit_tiers]
                          ELSE settings
    /\ UNCHANGED <<unit_args, pc, request, transactions, decision, plan,
                   response, error, bank_attempt, hook_attempt, hook_result,
                   hook_sleeps, hook_delays, bank_reply, engine_args, engine_out,
                   db_decisions, db_plans, ledger, next_uuid>>

\* score_to_credit_limit_cents(risk_score) under the loaded settings
ScoreToCreditLimitCents ==
    /\ unit_args.fn = "ScoringSettings"
    /\ unit_result.returned
    /\ ~unit_result.raised
    /\ \E risk_score \in ScoreInputs :
         /\ unit_args' = [fn |-> "score_to_credit_limit_cents",
                          risk_score |-> risk_score]
         /\ unit_result' =
                [returned |-> TRUE, raised |-> FALSE,
                 value |-> score_to_credit_limit_cents(risk_score, settings)]
    /\ UNCHANGED <<settings, pc, request, transactions, decision, plan,
                   response, error, bank_attempt, hook_attempt, hook_result,
                   hook_sleeps, hook_delays, bank_reply, engine_args, engine_out,
                   db_decisions, db_plans, ledger, next_uuid>>

\* is_approved(risk_score) under the loaded settings
IsApproved ==
    /\ unit_args.fn = "ScoringSettings"
    /\ unit_result.returned
    /\ ~unit_result.raised
    /\ \E risk_score \in ScoreInputs :
         /\ unit_args' = [fn |-> "is_approved", risk_score |-> risk_score]
         /\ unit_result' = [returned |-> TRUE, raised |-> FALSE,
                            value |-> is_approved(risk_score, settings)]
    /\ UNCHANGED <<settings, pc, request, transactions, decision, plan,
                   response, error, bank_attempt, hook_attempt, hook_result,
                   hook_sleeps, hook_delays, bank_reply, engine_args, engine_out,
                   db_decisions, db_plans, ledger, next_uuid>>

TierNext ==
    \/ LoadSettings
    \/ ScoreToCreditLimitCents
    \/ IsApproved

TierSpec == TierInit /\ [][TierNext]_vars

\* A history long enough for the standard path under the default settings:
\* one credit on day 0, then one debit a day, the first flagged of them
\* flagged NSF, every transaction leaving the same balance.  The amounts are
\* signed and not tied to the type.
History(credit_amount, debit_amount, balance, flagged) ==
    [i \in 1..DefaultSettings.min_history_days |->
        IF i = 1
        THEN [date |-> 0, amount_cents |-> credit_amount,
              balance_cents |-> balance, type |-> "credit", nsf |-> FALSE]
        ELSE [date |-> i - 1, amount_cents |-> debit_amount,
              balance_cents |-> balance, type |-> "debit",
              nsf |-> (i - 1 <= flagged)]]

HistoryCredits == {-9000, 0, 9000, 300000}

HistoryDebits == {-4000, -100, 0}

HistoryBalances == {-50000, 100, 250000}

HistoryFlagged == 0..5

Histories ==
    {History(credit_amount, debit_amount, balance, flagged) :
        credit_amount \in HistoryCredits, debit_amount \in HistoryDebits,
        balance \in HistoryBalances, flagged \in HistoryFlagged}

ScoreInit ==
    UnitStart(DefaultSettings,
              {[fn |-> fn, transactions |-> txns, amount_requested |-> 10003] :
                   fn \in {"make_decision", "_calculate_decision"},
                   txns \in Histories})

\* scoring make_decision(transactions, amount_requested_cents, False)
MakeDecision ==
    UnitReturn("make_decision",
               make_decision(unit_args.transactions, unit_args.amount_requested,
                             FALSE, next_uuid, settings))

\* DecisionService._calculate_decision(user_id, amount_requested, transactions)
CalculateDecision ==
    UnitReturn("_calculate_decision",
               _calculate_decision("user_good", unit_args.amount_requested,
                                   unit_args.transactions, settings).decision)

ScoreNext ==
    \/ MakeDecision
    \/ CalculateDecision

ScoreSpec == ScoreInit /\ [][ScoreNext]_vars

\* average daily balances in dollars passed to calculate_risk_score
RiskAdbs == {-300, 0, 50, 1500, 2000}

\* income/spend ratios in hundredths
RiskRatios == {0, 79, 100, 119, 120, 121, 195, 250}

RiskNsfCounts == 0..5

\* income consistencies in hundredths (0.0 .. 1.0)
RiskConsistencies == {0, 49, 50, 51, 100}

\* values of SCORING_GIG_WORKER_BOOST (ge=0, le=50)
GigWorkerBoosts == {0, 10, 50}

\* a consistency of h hundredths is max(0, 1 - cv) for cv = (100 - h) / 100
ConsistencyOf(h) ==
    [supplied |-> TRUE, cv2_num |-> (100 - h) * (100 - h), cv2_den |-> 10000]

RiskScoreInit ==
    \E boost \in GigWorkerBoosts :
        UnitStart([DefaultSettings EXCEPT !.gig_worker_boost = boost],
                  {[fn |-> "calculate_risk_score", avg_daily_balance |-> adb,
                    income_spend_ratio |-> ratio, nsf_count |-> nsf_count,
                    income_consistency |-> income_consistency] :
                       adb \in RiskAdbs,
                       ratio \in {[inf |-> TRUE, num |-> 1, den |-> 0]} \cup
                                 {[inf |-> FALSE, num |-> r, den |-> 100] :
                                      r \in RiskRatios},
                       nsf_count \in RiskNsfCounts,
                       income_consistency \in {NoConsistency} \cup
                           {ConsistencyOf(h) : h \in RiskConsistencies}})

\* calculate_risk_score(avg_daily_balance, income_spend_ratio, nsf_count,
\* income_consistency); ratio_score is its local after the adjustment
CalculateRiskScore ==
    UnitReturn("calculate_risk_score",
        [risk_score |->
             calculate_risk_score(unit_args.avg_daily_balance, 1,
                 unit_args.income_spend_ratio, unit_args.nsf_count,
                 unit_args.income_consistency, settings),
         ratio_score |->
             AdjustedRatioScore(unit_args.income_spend_ratio,
                                unit_args.income_consistency, settings)])

RiskScoreNext == CalculateRiskScore

RiskScoreSpec == RiskScoreInit /\ [][RiskScoreNext]_vars

\* average daily balances in dollars passed to score_avg_daily_balance
AdbScoreBalances == {50 * k : k \in -8..50} \cup {-199, -1, 99, 499, 1499, 1999}

\* values of SCORING_ADB_NEGATIVE_FLOOR, in dollars
AdbNegativeFloors == {-400, -200, -100}

AdbScoreInit ==
    \E floor \in AdbNegativeFloors :
        UnitStart([DefaultSettings EXCEPT !.adb_negative_floor = floor],
                  {[fn |-> "score_avg_daily_balance", adb |-> adb] :
                       adb \in AdbScoreBalances})

\* score_avg_daily_balance(adb) under the configured settings
ScoreAvgDailyBalance ==
    UnitReturn("score_avg_daily_balance",
               score_avg_daily_balance(unit_args.adb, 1, settings))

AdbScoreNext == ScoreAvgDailyBalance

AdbScoreSpec == AdbScoreInit /\ [][AdbScoreNext]_vars

\* values of SCORING_APPROVAL_THRESHOLD the settings accept (ge=0, le=100)
ApprovalThresholds == 0..100

ThresholdHistories ==
    {History(credit_amount, debit_amount, balance, flagged) :
        credit_amount \in {9000, 300000}, debit_amount \in {-4000, -100},
        balance \in HistoryBalances, flagged \in {0, 2, 5}}

\* the two decision functions called under a configured approval_threshold
ThresholdInit ==
    \E threshold \in ApprovalThresholds :
        UnitStart([DefaultSettings EXCEPT !.approval_threshold = threshold],
                  {[fn |-> fn, transactions |-> txns,
                    amount_requested |-> 10003] :
                       fn \in {"make_decision", "_calculate_decision"},
                       txns \in ThresholdHistories})

ThresholdNext ==
    \/ MakeDecision
    \/ CalculateDecision

ThresholdSpec == ThresholdInit /\ [][ThresholdNext]_vars

\* amounts requested from the two decision functions (all > 0)
AgreeAmounts == {1, 10003, 70000}

\* the empty list, the short lists (thin files under the default settings)
\* and the 30-day histories of the standard path
AgreeHistories == TxnLists \cup Histories

\* the two decision functions called on the same list and amount
AgreeInit ==
    UnitStart(DefaultSettings,
              {[fn |-> fn, transactions |-> txns, amount_requested |-> amount] :
                   fn \in {"make_decision", "_calculate_decision"},
                   txns \in AgreeHistories, amount \in AgreeAmounts})

AgreeNext ==
    \/ MakeDecision
    \/ CalculateDecision

AgreeSpec == AgreeInit /\ [][AgreeNext]_vars

-----------------------------------------------------------------------------
(* Concurrent requests (asyncio.gather of POST /v1/decision) *)

\* the users of the concurrent requests
ConcurrentUserIds == {"user_good", "user_gig"}

ConcurrentAmounts == {10003, 70000}

\* a history that is approved under ShortHistorySettings
SteadyHistory ==
    << [date |-> 0, amount_cents |-> 9000, balance_cents |-> 250000,
        type |-> "credit", nsf |-> FALSE],
       [date |-> 1, amount_cents |-> -4000, balance_cents |-> 250000,
        type |-> "debit", nsf |-> FALSE] >>

\* the bank's answers to the concurrent requests
ConcurrentHistories == {<<>>, SteadyHistory}

\* the decision _calculate_decision gives each request when it runs alone
DecisionWhenAlone ==
    [ user_id \in ConcurrentUserIds, amount \in ConcurrentAmounts,
      txns \in ConcurrentHistories |->
        _calculate_decision(user_id, amount, txns,
                            ShortHistorySettings).decision ]

\* every request gets its own DecisionService, repositories and clients
ConcurrentInit ==
    /\ StartState(Callers, ShortHistorySettings)
    /\ unit_args = NoUnitCall
    /\ unit_result = NoUnitResult

ConcurrentNext ==
    \/ \E c \in Callers : SubmitFrom(c, ConcurrentUserIds, ConcurrentAmounts)
    \/ \E c \in Callers : BankReturnsFrom(c, ConcurrentHistories)
    \/ \E c \in Callers : BankRejects(c)
    \/ \E c \in Callers : BankAttemptFails(c)
    \/ \E c \in Callers : SaveDecisionOn(c, Todays)
    \/ \E c \in Callers : SavePlan(c)
    \/ \E c \in Callers : WebhookAccepted(c)
    \/ \E c \in Callers : WebhookAttemptFails(c)
    \/ \E c \in Callers : WebhookBackoffOver(c)
    \/ \E c \in Callers :
          EngineCallFrom(c, ConcurrentHistories, ConcurrentAmounts)

ConcurrentSpec == ConcurrentInit /\ [][ConcurrentNext]_vars

-----------------------------------------------------------------------------
(* Properties *)

\* C1: in every decision the service or the scoring module produces for a
\* requested amount > 0 (empty, thin-file and standard paths), the granted
\* amount is min(requested, limit) when approved and 0 when not approved,
\* hence 0 <= granted <= min(requested, limit).
C1_GrantedIsMinOfRequestedAndLimit ==
    \A c \in Callers :
        /\ decision[c].id # None =>
             LET d == decision[c]
                 cap == Min(d.amount_requested_cents, d.credit_limit_cents)
             IN  /\ d.amount_requested_cents > 0
                 /\ d.amount_granted_cents = (IF d.approved THEN cap ELSE 0)
                 /\ 0 <= d.amount_granted_cents
                 /\ d.amount_granted_cents <= cap
        /\ (pc[c] = "engine_done" /\ engine_args[c].amount_requested_cents > 0) =>
             LET o == engine_out[c]
                 cap == Min(engine_args[c].amount_requested_cents,
                            o.credit_limit_cents)
             IN  /\ o.amount_granted_cents = (IF o.approved THEN cap ELSE 0)
                 /\ 0 <= o.amount_granted_cents
                 /\ o.amount_granted_cents <= cap

\* an approved decision whose request exceeds the limit is granted the limit
C1_Witness ==
    \E c \in Callers :
        /\ decision[c].id # None
        /\ decision[c].approved
        /\ decision[c].amount_requested_cents > decision[c].credit_limit_cents
        /\ decision[c].amount_granted_cents = decision[c].credit_limit_cents

\* C2: the plan of an approved decision with granted amount G has exactly four
\* installments of amounts [q + r, q, q, q], q = G div 4, r = G mod 4; the
\* amounts sum to G and total_cents = G.
C2_InstallmentsSplitGrantedAmount ==
    \A c \in Callers :
        /\ (decision[c].approved
            /\ pc[c] \in {"saving_plan", "sending_webhook", "webhook_backoff",
                          "done"}) => plan[c].id # None
        /\ plan[c].id # None =>
             LET G == decision[c].amount_granted_cents
                 q == G \div 4
                 r == G % 4
                 amounts == [k \in DOMAIN plan[c].installments |->
                                plan[c].installments[k].amount_cents]
             IN  /\ decision[c].approved
                 /\ Len(plan[c].installments) = 4
                 /\ amounts = <<q + r, q, q, q>>
                 /\ SumSeq(amounts) = G
                 /\ plan[c].total_cents = G

\* a plan for a granted amount that is not a multiple of four
C2_Witness ==
    \E c \in Callers :
        /\ plan[c].id # None
        /\ plan[c].total_cents % 4 # 0
        /\ plan[c].total_cents \div 4 > 0
        /\ plan[c].installments[1].amount_cents
             > plan[c].installments[2].amount_cents

\* C3: every installment of every plan has an amount > 0.
C3_EveryInstallmentPositive ==
    \A c \in Callers :
        \A k \in DOMAIN plan[c].installments :
            plan[c].installments[k].amount_cents > 0

\* C4 as stated: every returned decision, from DecisionService.make_decision
\* and from the scoring make_decision with any arguments, carries a plan id
\* if and only if it is approved.
C4_PlanIdIffApproved ==
    \A c \in Callers :
        /\ response[c].present =>
             ((response[c].plan_id # None) <=> response[c].approved)
        /\ pc[c] = "engine_done" =>
             ((engine_out[c].plan_id # None) <=> engine_out[c].approved)

\* C4: a plan id is present only if the decision is approved; it is present
\* if and only if approved in every DecisionService.make_decision response
\* and in every scoring make_decision result with generate_plan_id = True;
\* with generate_plan_id = False there is never a plan id.
C4_PlanIdIffApprovedWhenGenerated ==
    \A c \in Callers :
        /\ response[c].present =>
             ((response[c].plan_id # None) <=> response[c].approved)
        /\ pc[c] = "engine_done" =>
             /\ engine_out[c].plan_id # None => engine_out[c].approved
             /\ engine_args[c].generate_plan_id =>
                  ((engine_out[c].plan_id # None) <=> engine_out[c].approved)
             /\ ~engine_args[c].generate_plan_id =>
                  engine_out[c].plan_id = None

\* the scoring make_decision approves without a plan id
C4_Witness ==
    \E c \in Callers :
        /\ pc[c] = "engine_done"
        /\ ~engine_args[c].generate_plan_id
        /\ engine_out[c].approved
        /\ engine_out[c].plan_id = None

\* C5: for every non-empty transaction list the exposed income ratio factor
\* is finite.
C5_ExposedRatioFinite ==
    \A c \in Callers :
        /\ (decision[c].id # None /\ transactions[c] # <<>>) =>
             ~decision[c].decision_factors.income_ratio.inf
        /\ (pc[c] = "engine_done" /\ transactions[c] # <<>>) =>
             ~engine_out[c].decision_factors.income_ratio.inf

\* C6: a non-empty list with fewer than min_transactions transactions or
\* fewer than min_history_days distinct dates is decided by the NSF count
\* alone: NSF count > 0 is declined with limit 0, granted 0 and no plan, NSF
\* count = 0 is approved with limit thin_file_limit_cents (10000). For any
\* other non-empty list handle_thin_file returns None and the score decides.
C6_ThinFileDecidedByNsfOnly ==
    \A c \in Callers :
        LET txns == transactions[c]
            thin == \/ Len(txns) < settings.min_transactions
                    \/ Cardinality({txns[i].date : i \in DOMAIN txns})
                         < settings.min_history_days
            adb == calculate_avg_daily_balance(txns)
            score == calculate_risk_score(adb.total_cents, adb.num_days * 100,
                         calculate_income_spend_ratio(txns),
                         count_nsf_events(txns),
                         calculate_income_consistency(txns), settings)
            Decided(approved, limit, granted, plan_id, factors) ==
                /\ (thin /\ factors.nsf_count > 0) =>
                     /\ ~approved
                     /\ limit = 0
                     /\ granted = 0
                     /\ plan_id = None
                /\ (thin /\ factors.nsf_count = 0) =>
                     /\ approved
                     /\ limit = settings.thin_file_limit_cents
                     /\ limit = 10000
                /\ ~thin =>
                     /\ ~handle_thin_file(txns, settings).thin
                     /\ factors.risk_score = score
                     /\ limit = score_to_credit_limit_cents(score, settings)
                     /\ approved = (limit > 0)
        IN  /\ (decision[c].id # None /\ txns # <<>>) =>
                 /\ Decided(decision[c].approved, decision[c].credit_limit_cents,
                            decision[c].amount_granted_cents,
                            decision[c].plan_id, decision[c].decision_factors)
                 /\ (thin /\ ~decision[c].approved) => plan[c] = NoPlan
            /\ (pc[c] = "engine_done" /\ txns # <<>>) =>
                 Decided(engine_out[c].approved, engine_out[c].credit_limit_cents,
                         engine_out[c].amount_granted_cents,
                         engine_out[c].plan_id, engine_out[c].decision_factors)

\* a thin file with an NSF event is declined although its score would approve
C6_Witness ==
    \E c \in Callers :
        LET txns == transactions[c]
            adb == calculate_avg_daily_balance(txns)
        IN  /\ decision[c].id # None
            /\ txns # <<>>
            /\ is_thin_file(txns, settings)
            /\ decision[c].decision_factors.nsf_count > 0
            /\ ~decision[c].approved
            /\ score_to_credit_limit_cents(
                   calculate_risk_score(adb.total_cents, adb.num_days * 100,
                       calculate_income_spend_ratio(txns),
                       count_nsf_events(txns),
                       calculate_income_consistency(txns), settings),
                   settings) > 0

\* C7: with zero transactions the decision is declined with limit 0, granted
\* 0, the four factors zero and no plan, and nothing is raised: the
\* ValueError of calculate_avg_daily_balance on an empty list never reaches a
\* caller of DecisionService.make_decision or of the scoring make_decision.
C7_EmptyHistoryDeclinedWithoutError ==
    /\ calculate_avg_daily_balance(<<>>).raised
    /\ \A c \in Callers :
        LET Zero(approved, limit, granted, plan_id, factors) ==
                /\ ~approved
                /\ limit = 0
                /\ granted = 0
                /\ plan_id = None
                /\ factors = Factors(0, FALSE, 0, 0, 0)
        IN  /\ error[c] # "ValueError"
            /\ pc[c] # "engine_raised"
            /\ (bank_reply[c] = "ok" /\ transactions[c] = <<>>) =>
                 /\ pc[c] \in {"saving_decision", "done"}
                 /\ error[c] = "none"
                 /\ decision[c].id # None
                 /\ Zero(decision[c].approved, decision[c].credit_limit_cents,
                         decision[c].amount_granted_cents, decision[c].plan_id,
                         decision[c].decision_factors)
                 /\ plan[c] = NoPlan
                 /\ pc[c] = "done" => response[c] = DecisionResponse(decision[c])
            /\ (pc[c] = "engine_done" /\ transactions[c] = <<>>) =>
                 Zero(engine_out[c].approved, engine_out[c].credit_limit_cents,
                      engine_out[c].amount_granted_cents, engine_out[c].plan_id,
                      engine_out[c].decision_factors)

\* a request whose fetch returned no transactions has been answered: declined
C7_Witness ==
    \E c \in Callers :
        /\ pc[c] = "done"
        /\ bank_reply[c] = "ok"
        /\ transactions[c] = <<>>
        /\ response[c].present
        /\ ~response[c].approved
        /\ response[c].decision_factors.risk_score = 0

\* C8: when the fetch of the transaction history fails (404, another error
\* status, a timeout or another exception) make_decision ends by raising the
\* bank client's error: nothing is scored, no decision and no plan is
\* created or saved, no webhook is sent; the failure is never answered as an
\* empty history.
C8_FetchFailureAborts ==
    /\ \A c \in Callers :
        bank_reply[c] \in {"404", "500", "timeout", "error"} =>
            /\ pc[c] \in {"fetching", "raised"}
            /\ pc[c] = "raised" =>
                 error[c] = (CASE bank_reply[c] = "404" -> "UserNotFoundException"
                               [] bank_reply[c] = "timeout" ->
                                      "BankAPITimeoutException"
                               [] OTHER -> "BankAPIException")
            /\ transactions[c] = <<>>
            /\ decision[c] = NoDecision
            /\ plan[c] = NoPlan
            /\ ~response[c].present
            /\ hook_result[c] = "none"
            /\ hook_attempt[c] = 0
    /\ LET fetched == Cardinality({c \in Callers : bank_reply[c] = "ok"})
       IN  /\ Cardinality(db_decisions) <= fetched
           /\ Cardinality(db_plans) <= fetched
           /\ Len(ledger) <= fetched

\* the third attempt timed out and the timeout error reached the caller
C8_Witness ==
    \E c \in Callers :
        /\ pc[c] = "raised"
        /\ bank_reply[c] = "timeout"
        /\ bank_attempt[c] = BankMaxRetries - 1
        /\ error[c] = "BankAPITimeoutException"
        /\ db_decisions = {}

\* C9: when every delivery attempt of the plan-created webhook has failed
\* (send_plan_created returned False), make_decision raises nothing and
\* returns the approved decision with its plan id; the decision and the plan
\* are persisted unchanged.
C9_WebhookFailureKeepsDecision ==
    \A c \in Callers :
        hook_result[c] = "False" =>
            /\ pc[c] = "done"
            /\ error[c] = "none"
            /\ response[c] = DecisionResponse(decision[c])
            /\ response[c].approved
            /\ response[c].plan_id # None
            /\ response[c].plan_id = plan[c].id
            /\ DecisionModel(decision[c]) \in db_decisions
            /\ PlanModel(plan[c]) \in db_plans
            /\ \E row \in db_decisions :
                 /\ row.id = decision[c].id
                 /\ row.approved
                 /\ row.amount_granted_cents = response[c].amount_granted_cents
                 /\ row.credit_limit_cents = response[c].credit_limit_cents
            /\ \E row \in db_plans :
                 /\ row.id = response[c].plan_id
                 /\ row.total_cents = response[c].amount_granted_cents

\* all five attempts failed and the approved response was returned
C9_Witness ==
    \E c \in Callers :
        /\ hook_result[c] = "False"
        /\ hook_attempt[c] = WebhookMaxRetries - 1
        /\ hook_sleeps[c] = WebhookMaxRetries - 1
        /\ ledger = <<>>
        /\ response[c].present
        /\ response[c].approved

\* C10: make_decision returns the response without waiting for the webhook
\* delivery: while an attempt or a backoff sleep of the delivery is pending,
\* the caller already has its response.
C10_ResponseNotDelayedByWebhook ==
    \A c \in Callers :
        pc[c] \in {"sending_webhook", "webhook_backoff"} => response[c].present

\* C11: count_nsf_events walks the transactions in date order (equal dates
\* in list order) with the previous balance 0 at the start, and counts a
\* transaction once if it is flagged NSF, or if it is an unflagged debit with
\* a negative balance whose preceding transaction's balance was non-negative;
\* a negative debit after a negative balance and an unflagged credit are not
\* counted.
C11_NsfCountRule ==
    (unit_result.returned /\ unit_args.fn = "count_nsf_events") =>
        LET txns == unit_args.transactions
            Pos(i) == Cardinality({j \in DOMAIN txns :
                          \/ txns[j].date < txns[i].date
                          \/ (txns[j].date = txns[i].date /\ j <= i)})
            PrevBalance(i) ==
                IF Pos(i) = 1 THEN 0
                ELSE txns[CHOOSE j \in DOMAIN txns : Pos(j) = Pos(i) - 1]
                         .balance_cents
            Counted(i) ==
                \/ txns[i].nsf
                \/ /\ txns[i].type = "debit"
                   /\ txns[i].balance_cents < 0
                   /\ PrevBalance(i) >= 0
        IN  unit_result.value = Cardinality({i \in DOMAIN txns : Counted(i)})

\* a list given out of date order: its later debit goes negative after a
\* negative balance and is not counted, its earlier debit is counted
C11_Witness ==
    /\ unit_result.returned
    /\ unit_args.fn = "count_nsf_events"
    /\ LET txns == unit_args.transactions
       IN  /\ Len(txns) = 2
           /\ txns[1].date > txns[2].date
           /\ \A i \in 1..2 : /\ txns[i].type = "debit"
                              /\ ~txns[i].nsf
                              /\ txns[i].balance_cents < 0
           /\ unit_result.value = 1

\* C12: the NSF count is at least the number of transactions flagged NSF.
C12_NsfCountAtLeastFlagged ==
    (unit_result.returned /\ unit_args.fn = "count_nsf_events") =>
        unit_result.value >=
            Cardinality({i \in DOMAIN unit_args.transactions :
                             unit_args.transactions[i].nsf})

\* a flagged credit and an unflagged overdraft are both counted
C12_Witness ==
    /\ unit_result.returned
    /\ unit_args.fn = "count_nsf_events"
    /\ \E i \in DOMAIN unit_args.transactions :
           /\ unit_args.transactions[i].nsf
           /\ unit_args.transactions[i].type = "credit"
    /\ unit_result.value >
           Cardinality({i \in DOMAIN unit_args.transactions :
                            unit_args.transactions[i].nsf})

\* C13: for a non-empty list calculate_avg_daily_balance is, in cents, the
\* sum over the 90 days from the earliest date of the day's closing balance,
\* divided by 90: a date's closing balance is that of its last transaction
\* and holds until the next date with a transaction; transactions 90 or more
\* days after the earliest date contribute nothing. A single transaction of
\* balance B gives exactly B.
C13_AvgDailyBalanceOver90Days ==
    (unit_result.returned /\ unit_args.fn = "calculate_avg_daily_balance"
     /\ unit_args.transactions # <<>>) =>
        LET txns == unit_args.transactions
            dates == {txns[i].date : i \in DOMAIN txns}
            first == CHOOSE d \in dates : \A e \in dates : d <= e
            window == {d \in dates : d < first + 90}
            Closing(d) ==
                txns[CHOOSE i \in DOMAIN txns :
                         /\ txns[i].date = d
                         /\ \A j \in DOMAIN txns : txns[j].date = d => j <= i]
                    .balance_cents
            Until(d) ==
                LET later == {e \in window : e > d}
                IN  IF later = {} THEN first + 90
                    ELSE CHOOSE e \in later : \A f \in later : e <= f
            expected ==
                SumOver([d \in window |-> Closing(d) * (Until(d) - d)], window)
        IN  /\ ~unit_result.value.raised
            /\ unit_result.value.num_days = 90
            /\ unit_result.value.total_cents = expected
            /\ Len(txns) = 1 =>
                 unit_result.value.total_cents
                     = txns[1].balance_cents * unit_result.value.num_days

\* two transactions on the first date (the later one closes the day), and a
\* third one 90 days later that is outside the window
C13_Witness ==
    /\ unit_result.returned
    /\ unit_args.fn = "calculate_avg_daily_balance"
    /\ LET txns == unit_args.transactions
       IN  /\ Len(txns) = 3
           /\ txns[1].date = 0 /\ txns[1].balance_cents = 70000
           /\ txns[2].date = 90 /\ txns[2].balance_cents = -30000
           /\ txns[3].date = 0 /\ txns[3].balance_cents = 12345
           /\ unit_result.value.total_cents = 12345 * 90

C15_AcceptedTiersPartitionScores ==
    (unit_args.fn = "ScoringSettings" /\ unit_result.returned
     /\ ~unit_result.raised) =>
        \A score \in 0..100 :
            Cardinality({k \in DOMAIN settings.credit_limit_tiers :
                            /\ settings.credit_limit_tiers[k][1] <= score
                            /\ score <= settings.credit_limit_tiers[k][2]}) = 1

\* C16: score_to_credit_limit_cents treats a score below 0 as 0 and above 100
\* as 100 and returns the limit of the first tier, in list order, whose
\* inclusive range contains it; is_approved is true exactly when that limit
\* is > 0. Under the default tiers the limits are 0 for 0..29, 10000 for
\* 30..44, 20000 for 45..59, 30000 for 60..74, 40000 for 75..84, 50000 for
\* 85..94 and 60000 for 95..100.
C16_FirstMatchingTierOfClampedScore ==
    (unit_result.returned
     /\ unit_args.fn \in {"score_to_credit_limit_cents", "is_approved"}) =>
        LET tiers == settings.credit_limit_tiers
            score == unit_args.risk_score
            clamped == IF score < 0 THEN 0 ELSE IF score > 100 THEN 100 ELSE score
            matching == {k \in DOMAIN tiers :
                            tiers[k][1] <= clamped /\ clamped <= tiers[k][2]}
            first == CHOOSE k \in matching : \A j \in matching : k <= j
            limit == IF matching = {} THEN 0 ELSE tiers[first][3]
            by_default ==
                CASE clamped <= 29 -> 0
                  [] clamped <= 44 -> 10000
                  [] clamped <= 59 -> 20000
                  [] clamped <= 74 -> 30000
                  [] clamped <= 84 -> 40000
                  [] clamped <= 94 -> 50000
                  [] OTHER -> 60000
        IN  /\ unit_args.fn = "score_to_credit_limit_cents" =>
                 /\ unit_result.value = limit
                 /\ tiers = DefaultSettings.credit_limit_tiers =>
                      unit_result.value = by_default
            /\ unit_args.fn = "is_approved" =>
                 unit_result.value = (limit > 0)

\* an out-of-range score under two overlapping tiers takes the first one
C16_Witness ==
    /\ unit_result.returned
    /\ unit_args.fn = "score_to_credit_limit_cents"
    /\ unit_args.risk_score = 102
    /\ settings.credit_limit_tiers = << <<30, 100, 10000>>, <<0, 100, 0>> >>
    /\ unit_result.value = 10000

\* C17: under the default configuration the risk score in the factors of
\* every decision is in 0..100, and on the standard path it is the floor of
\* the weighted sum of the three sub-scores, each of them in 0..100.
C17_RiskScoreInRange ==
    (unit_result.returned
     /\ unit_args.fn \in {"make_decision", "_calculate_decision"}) =>
        LET txns == unit_args.transactions
            adb == calculate_avg_daily_balance(txns)
            adb_score == score_avg_daily_balance(adb.total_cents,
                                                 adb.num_days * 100, settings)
            ratio_score ==
                score_income_spend_ratio(calculate_income_spend_ratio(txns),
                                         settings)
            nsf_score == score_nsf_count(count_nsf_events(txns), settings)
            weighted == adb_score * settings.weight_adb
                        + ratio_score * settings.weight_ratio
                        + nsf_score * settings.weight_nsf
            floor == (weighted - (weighted % 100)) \div 100
            risk_score == unit_result.value.decision_factors.risk_score
        IN  /\ risk_score \in 0..100
            /\ ~is_thin_file(txns, settings) =>
                 /\ adb_score \in 0..100
                 /\ ratio_score \in 0..100
                 /\ nsf_score \in 0..100
                 /\ risk_score = floor

\* C18: the installments of every plan are due 14, 28, 42 and 56 days after
\* the date the plan was built (date.today() in _create_plan): each one
\* exactly 14 days after the previous one, in strictly increasing order.
C18_DueDatesBiweekly ==
    \A c \in Callers :
        plan[c].id # None =>
            LET due == [k \in DOMAIN plan[c].installments |->
                           plan[c].installments[k].due_date]
            IN  /\ \E today \in Todays :
                     due = <<today + 14, today + 28, today + 42, today + 56>>
                /\ \A k \in 1..(Len(due) - 1) :
                     /\ due[k + 1] = due[k] + 14
                     /\ due[k] < due[k + 1]
                /\ \A row \in db_plans :
                     row.id = plan[c].id =>
                         \A k \in DOMAIN due :
                             row.installments[k].due_date = due[k]

\* a plan built on day 3 and saved: due on days 17, 31, 45 and 59
C18_Witness ==
    \E c \in Callers :
        /\ plan[c].id # None
        /\ PlanModel(plan[c]) \in db_plans
        /\ plan[c].installments[1].due_date = 17
        /\ plan[c].installments[4].due_date = 59

C20_ConcurrentRequestsIsolated ==
    /\ \A c \in Callers :
        /\ decision[c].id # None
           => /\ settings = ShortHistorySettings
              /\ decision[c] =
                   [DecisionWhenAlone[request[c].user_id,
                        request[c].amount_cents_requested, transactions[c]]
                    EXCEPT !.id = decision[c].id,
                           !.plan_id = decision[c].plan_id]
              /\ decision[c].plan_id = plan[c].id
              /\ \A r \in db_decisions :
                     r.id = decision[c].id => r = DecisionModel(decision[c])
        /\ plan[c].id # None
           => /\ decision[c].approved
              /\ plan[c].decision_id = decision[c].id
              /\ plan[c].user_id = request[c].user_id
              /\ plan[c].total_cents = decision[c].amount_granted_cents
              /\ \A r \in db_plans :
                     r.id = plan[c].id => r = PlanModel(plan[c])
        /\ response[c].present
           => /\ response[c] = DecisionResponse(decision[c])
              /\ DecisionModel(decision[c]) \in db_decisions
              /\ decision[c].approved => PlanModel(plan[c]) \in db_plans
    /\ \A c \in Callers : \A d \in Callers \ {c} :
        /\ decision[c].id # None => decision[c].id # decision[d].id
        /\ plan[c].id # None
           => /\ plan[c].id # plan[d].id
              /\ plan[c].decision_id # plan[d].decision_id

\* both requests answered and approved, for different users and different
\* granted amounts, with their steps interleaved: c2 was scored after c1 and
\* its decision was saved before c1's
C20_Witness ==
    /\ response["c1"].present
    /\ response["c2"].present
    /\ decision["c1"].approved
    /\ decision["c2"].approved
    /\ request["c1"].user_id # request["c2"].user_id
    /\ decision["c1"].amount_granted_cents # decision["c2"].amount_granted_cents
    /\ decision["c1"].id < decision["c2"].id
    /\ plan["c2"].id < plan["c1"].id

\* C21: on the standard scoring path, under every approval_threshold in
\* 0..100, a decision is approved if and only if its composite score is at
\* least the configured approval_threshold.
C21_ApprovedIffScoreAtLeastThreshold ==
    ( /\ unit_result.returned
      /\ unit_args.fn \in {"make_decision", "_calculate_decision"}
      /\ ~is_thin_file(unit_args.transactions, settings) )
    => ( unit_result.value.approved
         <=> unit_result.value.decision_factors.risk_score
               >= settings.approval_threshold )

\* C22: in make_decision the decision is saved first, then (only if
\* approved) the plan is built and saved, then (only if approved) the
\* plan-created webhook is sent: a plan exists and is saved only after its
\* approved decision was saved in an earlier step, a webhook attempt is made
\* and a payload delivered only for a plan saved in an earlier step, and a
\* declined decision is answered with its row saved, no plan and no webhook.
C22_DecisionThenPlanThenWebhook ==
    /\ [](\A c \in Callers :
            /\ plan[c].id # None
               => /\ decision[c].approved
                  /\ DecisionModel(decision[c]) \in db_decisions
            /\ ( \/ pc[c] \in {"sending_webhook", "webhook_backoff"}
                 \/ hook_attempt[c] > 0
                 \/ hook_result[c] # "none" )
               => /\ PlanModel(plan[c]) \in db_plans
                  /\ DecisionModel(decision[c]) \in db_decisions
            /\ (response[c].present /\ ~decision[c].approved)
               => /\ DecisionModel(decision[c]) \in db_decisions
                  /\ plan[c] = NoPlan
                  /\ hook_result[c] = "none"
                  /\ hook_attempt[c] = 0
                  /\ \A row \in db_plans : row.decision_id # decision[c].id
            /\ (response[c].present /\ decision[c].approved)
               => /\ PlanModel(plan[c]) \in db_plans
                  /\ hook_result[c] # "none")
    /\ [](\A row \in db_plans :
            \E d \in db_decisions : d.id = row.decision_id /\ d.approved)
    /\ [](\A k \in DOMAIN ledger :
            \E row \in db_plans : row.id = ledger[k].plan_id)
    /\ [][ /\ \A row \in db_plans' \ db_plans :
                \E d \in db_decisions : d.id = row.decision_id
           /\ \A k \in DOMAIN ledger' \ DOMAIN ledger :
                \E row \in db_plans : row.id = ledger'[k].plan_id
           /\ \A c \in Callers :
                (pc[c] # "sending_webhook" /\ pc'[c] = "sending_webhook")
                => PlanModel(plan'[c]) \in db_plans' ]_vars

\* an approved request whose decision and plan are saved and whose webhook
\* was delivered, answered
C22_Witness ==
    \E c \in Callers :
        /\ response[c].present
        /\ decision[c].approved
        /\ DecisionModel(decision[c]) \in db_decisions
        /\ PlanModel(plan[c]) \in db_plans
        /\ hook_result[c] = "True"
        /\ Len(ledger) = 1
        /\ ledger[1].plan_id = plan[c].id

C24_BankFetchRetriesAndErrors ==
    /\ [](\A c \in Callers :
            /\ bank_attempt[c] \in 0..(BankMaxRetries - 1)
            /\ bank_reply[c] = "404"
               => (pc[c] = "raised" /\ error[c] = "UserNotFoundException")
            /\ bank_reply[c] = "500"
               => (pc[c] = "raised" /\ error[c] = "BankAPIException")
            /\ (bank_reply[c] \in {"timeout", "error"} /\ pc[c] = "fetching")
               => bank_attempt[c] >= 1
            /\ (bank_reply[c] \in {"timeout", "error"} /\ pc[c] # "fetching")
               => /\ pc[c] = "raised"
                  /\ bank_attempt[c] = BankMaxRetries - 1
                  /\ error[c] = IF bank_reply[c] = "timeout"
                                THEN "BankAPITimeoutException"
                                ELSE "BankAPIException"
            /\ error[c] \in {"UserNotFoundException", "BankAPIException",
                             "BankAPITimeoutException"}
               => /\ bank_reply[c] \in {"404", "500", "timeout", "error"}
                  /\ transactions[c] = <<>>
                  /\ decision[c] = NoDecision
            /\ bank_reply[c] = "ok" => pc[c] # "fetching")
    /\ [][\A c \in Callers :
            /\ bank_attempt'[c] > bank_attempt[c]
               => /\ bank_attempt'[c] = bank_attempt[c] + 1
                  /\ bank_reply'[c] \in {"timeout", "error"}
                  /\ pc'[c] = "fetching"
            /\ (pc[c] = "fetching" /\ bank_reply'[c] \in {"404", "500"})
               => (pc'[c] = "raised" /\ bank_attempt'[c] = bank_attempt[c])
            /\ (pc[c] = "fetching" /\ bank_reply'[c] = "ok")
               => (pc'[c] # "fetching" /\ error'[c] \notin
                       {"UserNotFoundException", "BankAPIException",
                        "BankAPITimeoutException"})
            /\ pc[c] = "raised"
               => /\ pc'[c] = "raised"
                  /\ bank_attempt'[c] = bank_attempt[c]
                  /\ bank_reply'[c] = bank_reply[c]
                  /\ error'[c] = error[c] ]_vars

\* two attempts failed, the third met an unexpected exception and
\* BankAPIException reached the caller
C24_Witness ==
    \E c \in Callers :
        /\ pc[c] = "raised"
        /\ bank_reply[c] = "error"
        /\ bank_attempt[c] = BankMaxRetries - 1
        /\ error[c] = "BankAPIException"

\* C25: calculate_risk_score adds gig_worker_boost to the ratio sub-score,
\* capped at 100, exactly when an income consistency is supplied, it is
\* strictly below gig_worker_consistency_threshold and the ratio is strictly
\* above gig_worker_ratio_threshold; otherwise the ratio sub-score is
\* unchanged.  The composite with any consistency is never lower than the
\* composite of the same balance, ratio and NSF count without one.
C25_GigWorkerAdjustment ==
    (unit_result.returned /\ unit_args.fn = "calculate_risk_score") =>
        LET ratio == unit_args.income_spend_ratio
            ic == unit_args.income_consistency
            plain == score_income_spend_ratio(ratio, settings)
            \* 1 - cv < threshold, both sides in hundredths
            below == \E h \in RiskConsistencies :
                        /\ ic = ConsistencyOf(h)
                        /\ h < settings.gig_worker_consistency_threshold
            above == \/ ratio.inf
                     \/ ratio.num * 100
                          > settings.gig_worker_ratio_threshold * ratio.den
            without == calculate_risk_score(unit_args.avg_daily_balance, 1,
                           ratio, unit_args.nsf_count, NoConsistency, settings)
        IN  /\ unit_result.value.ratio_score =
                 IF ic.supplied /\ below /\ above
                 THEN Min(100, plain + settings.gig_worker_boost)
                 ELSE plain
            /\ unit_result.value.risk_score >= without
            /\ ~ic.supplied => unit_result.value.risk_score = without

\* an irregular income (0.49) with ratio 2.5: the ratio sub-score 95 is raised
\* by the boost of 10 and capped at 100, and the composite is higher than
\* without the consistency
C25_Witness ==
    /\ unit_result.returned
    /\ unit_args.fn = "calculate_risk_score"
    /\ settings.gig_worker_boost = 10
    /\ unit_args.income_consistency = ConsistencyOf(49)
    /\ unit_args.income_spend_ratio = [inf |-> FALSE, num |-> 250, den |-> 100]
    /\ score_income_spend_ratio(unit_args.income_spend_ratio, settings) = 95
    /\ unit_result.value.ratio_score = 100
    /\ unit_result.value.risk_score >
         calculate_risk_score(unit_args.avg_daily_balance, 1,
             unit_args.income_spend_ratio, unit_args.nsf_count, NoConsistency,
             settings)

\* C26: for a negative balance score_avg_daily_balance falls linearly from 20
\* at zero to 0 at the configured adb_negative_floor and is 0 at and below
\* that floor, whatever floor is configured.
C26_NegativeBalanceScaledToFloor ==
    ( /\ unit_result.returned
      /\ unit_args.fn = "score_avg_daily_balance"
      /\ unit_args.adb < 0 )
    => LET floor == settings.adb_negative_floor
       IN  /\ unit_args.adb <= floor => unit_result.value = 0
           /\ unit_args.adb > floor
              => unit_result.value
                   = TruncDiv(20 * (unit_args.adb - floor), -floor)

\* C27: score_avg_daily_balance is non-decreasing in the balance; from
\* adb_good_threshold on it is 90 at the threshold, climbs through values
\* strictly between 90 and 100 and stays at 100 once it has reached 100.
C27_TopSegmentClimbsLinearly ==
    ( /\ unit_result.returned
      /\ unit_args.fn = "score_avg_daily_balance" )
    => /\ \A lower \in AdbScoreBalances :
            lower <= unit_args.adb
            => score_avg_daily_balance(lower, 1, settings) <= unit_result.value
       /\ unit_args.adb = settings.adb_good_threshold
          => unit_result.value = 90
       /\ unit_args.adb >= settings.adb_good_threshold
          => unit_result.value \in 90..100
       /\ (unit_args.adb >= settings.adb_good_threshold
           /\ unit_result.value = 100)
          => \E lower \in AdbScoreBalances :
                /\ lower >= settings.adb_good_threshold
                /\ lower < unit_args.adb
                /\ score_avg_daily_balance(lower, 1, settings) \in 91..99

\* C28: the spending total of calculate_income_spend_ratio is the sum of the
\* absolute values of the debit amounts and the income total is the sum of
\* the credit amounts; whenever the spending total is not 0 the ratio is
\* income total / spending total, whatever the signs of the debit amounts.
C28_SpendingIsSumOfAbsoluteDebits ==
    (unit_result.returned /\ unit_args.fn = "calculate_income_spend_ratio") =>
        LET txns == unit_args.transactions
            credits == {i \in DOMAIN txns : txns[i].type = "credit"}
            debits == {i \in DOMAIN txns : txns[i].type = "debit"}
            income == SumOver([i \in DOMAIN txns |-> txns[i].amount_cents],
                              credits)
            spending == SumOver([i \in DOMAIN txns |-> Abs(txns[i].amount_cents)],
                                debits)
            ratio == unit_result.value
        IN  spending # 0 =>
                /\ ~ratio.inf
                /\ ratio.den # 0
                /\ ratio.num * spending = income * ratio.den

\* C29: the order of the transactions does not matter: every permutation of
\* a fetched list, lists with several transactions on one date included,
\* gives the same average daily balance, the same NSF count and the same
\* decision (approval, limit, granted amount, factors).
C29_DecisionIndependentOfOrder ==
    \A c \in Callers :
        decision[c].id # None =>
            LET txns == transactions[c]
                reordered == {[i \in DOMAIN txns |-> txns[f[i]]] :
                                 f \in Permutations(DOMAIN txns)}
            IN  \A other \in reordered :
                    /\ count_nsf_events(other) = count_nsf_events(txns)
                    /\ txns # <<>> => calculate_avg_daily_balance(other)
                                        = calculate_avg_daily_balance(txns)
                    /\ LET d == _calculate_decision(request[c].user_id,
                                    request[c].amount_cents_requested, other,
                                    settings).decision
                       IN  /\ d.approved = decision[c].approved
                           /\ d.credit_limit_cents = decision[c].credit_limit_cents
                           /\ d.amount_granted_cents
                                = decision[c].amount_granted_cents
                           /\ d.decision_factors = decision[c].decision_factors

\* C30: the two decision implementations agree: on the same transaction list
\* and the same requested amount > 0, DecisionService._calculate_decision and
\* the scoring module's make_decision give the same approval, credit limit,
\* granted amount and the same four factors, on the empty, the thin-file and
\* the standard path, and one raises exactly when the other does.
C30_ImplementationsAgree ==
    (unit_result.returned
     /\ unit_args.fn \in {"make_decision", "_calculate_decision"}
     /\ unit_args.amount_requested > 0) =>
        LET txns == unit_args.transactions
            amount == unit_args.amount_requested
            engine == make_decision(txns, amount, FALSE, next_uuid, settings)
            service == _calculate_decision("user_good", amount, txns, settings)
            returned == unit_result.value
            Same(d) ==
                /\ d.approved = returned.approved
                /\ d.credit_limit_cents = returned.credit_limit_cents
                /\ d.amount_granted_cents = returned.amount_granted_cents
                /\ d.decision_factors = returned.decision_factors
        IN  /\ engine.raised = service.raised
            /\ unit_args.fn = "make_decision" => Same(service.decision)
            /\ unit_args.fn = "_calculate_decision" => Same(engine)

\* make_decision has returned on the standard path with an approval whose
\* granted amount is the credit limit, below the requested amount
C30_Witness ==
    /\ unit_result.returned
    /\ unit_args.fn = "make_decision"
    /\ ~is_thin_file(unit_args.transactions, settings)
    /\ unit_result.value.approved
    /\ unit_result.value.credit_limit_cents < unit_args.amount_requested
    /\ unit_result.value.amount_granted_cents
         = unit_result.value.credit_limit_cents
    /\ _calculate_decision("user_good", unit_args.amount_requested,
                           unit_args.transactions, settings)
           .decision.amount_granted_cents
         = unit_result.value.amount_granted_cents

====
